---- MODULE Spec2Model ----
(***************************************************************************)
(* Model of the inkless-db database core (src-tauri/src/db, src-tauri/src/ *)
(* api.rs): the connection registry behind its tokio RwLock, the result    *)
(* materializer rows_to_result_{sqlite,pg,mysql}, the query builder, a     *)
(* built SELECT run on SQLite, schema inspection with get_schema, the pool  *)
(* options, and the registry under the fairness of the runtime.            *)
(***************************************************************************)
EXTENDS Integers, Sequences, FiniteSets, TLC

VARIABLES
    registry,     \* Registry.inner: HashMap<String, DynPool>, id -> pool
    lockWriter,   \* the task holding the RwLock write guard (empty or one task)
    lockReaders,  \* tasks holding an RwLock read guard
    lockQueue,    \* tasks waiting for the RwLock, first in first out
    clock,        \* the last reading of SystemTime::now(), in nanoseconds
    task,         \* per slot: the call in flight in it and where it stands
    lastResult,   \* what the call that returned last returned
    calls,        \* number of calls started so far
    nextSerial,   \* number of pools constructed so far (pool identity)
    returned,     \* history: per id, the drivers of the open_connection calls
                  \* that returned it, in the order they returned
    nclosed,      \* history: per id, the close_connection calls completed since
                  \* an open_connection last returned it (counted up to 2)
    rows,         \* materializer input: the rows fetch_all returned
    cap,          \* materializer input: the row cap
    result,       \* materializer output: QueryResult, or NoResult
    usedDialect,  \* which rows_to_result_* produced result
    cellIn,       \* cell conversion input: one driver cell
    cellOut,      \* cell conversion output per dialect
    bspec,        \* builder input: the spec given, and its two relatives
    bdialect,     \* the dialect the statement was built for, or "none"
    built,        \* builder output per input: SQL text and bound values
    etable,       \* the rows of the table users, in the order they are stored
    espec,        \* the SelectSpec that is built and run
    ecap,         \* the row cap execute_sql_with_binds is given
    estate,       \* "idle", or how the run ended: "ok", "error"
    eresult,      \* the QueryResult of the run
    sdialect,     \* the dialect of the pool get_schema is called on
    slistFails,   \* whether the query for the list of tables fails
    scatalog,     \* the tables of the inspected database: (schema, name) ->
                  \* kind, columns, foreign keys and the reads that fail
    sstate,       \* "idle", or how get_schema ended: "ok", "error"
    sresult,      \* what inspect_schema returned
    sjson         \* the JSON payload of get_schema

regVars == <<registry, lockWriter, lockReaders, lockQueue, clock, task,
             lastResult, calls,
             nextSerial, returned, nclosed>>
matVars == <<rows, cap, result, usedDialect>>
cellVars == <<cellIn, cellOut>>
bldVars == <<bspec, bdialect, built>>
exeVars == <<etable, espec, ecap, estate, eresult>>
schVars == <<sdialect, slistFails, scatalog, sstate, sresult, sjson>>
vars == <<regVars, matVars, cellVars, bldVars, exeVars, schVars>>

-----------------------------------------------------------------------------
(* Bounds *)

NTasks == 2
MaxCalls == 3
MaxClock == 1

-----------------------------------------------------------------------------
(* Drivers, dialects, pools *)

Driver == {"Sqlite", "Postgres", "MySql"}
Dialect == {"Sqlite", "Postgres", "MySql"}

\* The DynPool variant open_connection builds for a driver.
DynPoolFor(driver, serial) ==
    CASE driver = "Sqlite"   -> [variant |-> "Sqlite", serial |-> serial]
      [] driver = "Postgres" -> [variant |-> "Postgres", serial |-> serial]
      [] driver = "MySql"    -> [variant |-> "MySql", serial |-> serial]

\* DynPool::dialect
dialect(pool) ==
    CASE pool.variant = "Sqlite"   -> "Sqlite"
      [] pool.variant = "Postgres" -> "Postgres"
      [] pool.variant = "MySql"    -> "MySql"

\* std::process::id(): one value for the life of the process
ProcessId == 4242

\* gen_id: format!("{:x}-{}", nanos, pid); the hex text of nanos and the
\* decimal text of pid are kept as the pair they are printed from.
gen_id(nanos) == <<nanos, ProcessId>>

\* The ids a caller may pass: the ids gen_id can produce within the clock
\* bound, whether or not an open_connection has produced them yet.
ConnIds == {gen_id(n) : n \in 0..MaxClock}

Tasks == 1..NTasks
NoPool == [variant |-> "None", serial |-> 0]
NoId == <<0 - 1, 0>>

\* HashMap::insert: the entry for id is set, replacing any entry it had
MapInsert(map, id, pool) ==
    [k \in DOMAIN map \cup {id} |-> IF k = id THEN pool ELSE map[k]]

\* HashMap::remove: the entry for id is dropped if there is one
MapRemove(map, id) ==
    [k \in DOMAIN map \ {id} |-> map[k]]

IdleTask == [pc |-> "idle", op |-> "none", id |-> NoId, driver |-> "Sqlite",
             pool |-> NoPool]

QueryOps == {"execute_sql", "get_schema", "execute_select_spec"}

-----------------------------------------------------------------------------
(* Connection registry: db/mod.rs open_connection, close_connection,       *)
(* execute_sql, get_schema; api.rs get_schema, execute_select_spec.        *)

\* pools.get(conn_id): is there an entry for the id
Found(map, id) == id \in DOMAIN map

\* The call in slot t returns r: the slot is free again.
Return(t, r) ==
    /\ task' = [task EXCEPT ![t] = IdleTask]
    /\ lastResult' = r

\* A new call takes the first free slot (free slots are alike).
MayStart(t) ==
    /\ task[t].pc = "idle"
    /\ \A u \in Tasks : u < t => task[u].pc # "idle"
    /\ calls < MaxCalls

\* tokio RwLock: waiters are served first in first out; a write guard is
\* granted when no guard is held, a read guard when no write guard is held.
Enqueue(t) == lockQueue' = Append(lockQueue, t)

\* Faulty variant: open_connection takes the write guard first and connects
\* while holding it
OpenStartUnderWriteGuard(t, d, nanos) ==
    /\ MayStart(t)
    /\ nanos >= clock
    /\ lockWriter = {} /\ lockReaders = {} /\ lockQueue = << >>
    /\ lockWriter' = {t}
    /\ clock' = nanos
    /\ calls' = calls + 1
    /\ task' = [task EXCEPT ![t] = [pc |-> "connect", op |-> "open_connection",
                                    id |-> gen_id(nanos), driver |-> d,
                                    pool |-> NoPool]]
    /\ UNCHANGED <<registry, lockReaders, lockQueue, lastResult,
                   nextSerial, returned, nclosed, matVars, cellVars, bldVars, exeVars, schVars>>

\* open_connection, line 73: the id is generated before the pool is built.
\* gen_id reads SystemTime::now(): nanos is the reading, which is the last
\* reading again (both fall within one tick of the clock) or a later one.
OpenStart(t, d, nanos) ==
    /\ MayStart(t)
    /\ nanos >= clock
    /\ clock' = nanos
    /\ calls' = calls + 1
    /\ task' = [task EXCEPT ![t] = [pc |-> "connect", op |-> "open_connection",
                                    id |-> gen_id(nanos), driver |-> d,
                                    pool |-> NoPool]]
    /\ UNCHANGED <<registry, lockWriter, lockReaders, lockQueue, lastResult,
                   nextSerial, returned, nclosed, matVars, cellVars, bldVars, exeVars, schVars>>

\* Faulty variant: the id is registered before the connect is known to succeed
ConnectFailLeavesEntry(t) ==
    /\ task[t].pc = "connect"
    /\ registry' = MapInsert(registry, task[t].id, NoPool)
    /\ Return(t, "ConnectError")
    /\ UNCHANGED <<lockWriter, lockReaders, lockQueue, clock, calls,
                   nextSerial, returned, nclosed, matVars, cellVars, bldVars, exeVars, schVars>>

\* open_connection, lines 74-96: connect(url).await? fails, the call returns Err
ConnectFail(t) ==
    /\ task[t].pc = "connect"
    /\ Return(t, "ConnectError")
    /\ UNCHANGED <<registry, lockWriter, lockReaders, lockQueue, clock,
                   calls, nextSerial, returned, nclosed, matVars, cellVars, bldVars, exeVars, schVars>>

\* open_connection, lines 74-98: connect(url).await succeeds, the pool is
\* wrapped in the variant of the driver and the task asks for the write lock
ConnectOk(t) ==
    /\ task[t].pc = "connect"
    /\ nextSerial' = nextSerial + 1
    /\ task' = [task EXCEPT ![t].pc = "wwait",
                            ![t].pool = DynPoolFor(task[t].driver, nextSerial + 1)]
    /\ Enqueue(t)
    /\ UNCHANGED <<registry, lockWriter, lockReaders, clock, lastResult,
                   calls, returned, nclosed, matVars, cellVars, bldVars, exeVars, schVars>>

\* Faulty variant: a write guard granted while read guards are out
AcquireWriteDespiteReaders(t) ==
    /\ task[t].pc = "wwait"
    /\ lockQueue # <<>> /\ Head(lockQueue) = t
    /\ lockWriter = {}
    /\ lockWriter' = {t}
    /\ lockQueue' = Tail(lockQueue)
    /\ task' = [task EXCEPT ![t].pc = "wheld"]
    /\ UNCHANGED <<registry, lockReaders, clock, lastResult, calls,
                   nextSerial, returned, nclosed, matVars, cellVars, bldVars, exeVars, schVars>>

\* reg.inner.write().await resolves
AcquireWrite(t) ==
    /\ task[t].pc = "wwait"
    /\ lockQueue # <<>> /\ Head(lockQueue) = t
    /\ lockWriter = {} /\ lockReaders = {}
    /\ lockWriter' = {t}
    /\ lockQueue' = Tail(lockQueue)
    /\ task' = [task EXCEPT ![t].pc = "wheld"]
    /\ UNCHANGED <<registry, lockReaders, clock, lastResult, calls,
                   nextSerial, returned, nclosed, matVars, cellVars, bldVars, exeVars, schVars>>

\* open_connection, lines 98-99: insert under the write guard, drop it, Ok(id)
OpenInsert(t) ==
    /\ task[t].pc = "wheld" /\ task[t].op = "open_connection"
    /\ registry' = MapInsert(registry, task[t].id, task[t].pool)
    /\ lockWriter' = {}
    /\ Return(t, "Ok")
    /\ returned' = [returned EXCEPT ![task[t].id] = Append(@, task[t].driver)]
    /\ nclosed' = [nclosed EXCEPT ![task[t].id] = 0]
    /\ UNCHANGED <<lockReaders, lockQueue, clock, calls, nextSerial, matVars,
                   cellVars, bldVars, exeVars, schVars>>

\* close_connection, line 104: the task asks for the write lock
CloseStart(t, id) ==
    /\ MayStart(t)
    /\ calls' = calls + 1
    /\ task' = [task EXCEPT ![t] = [pc |-> "wwait", op |-> "close_connection",
                                    id |-> id, driver |-> "Sqlite",
                                    pool |-> NoPool]]
    /\ Enqueue(t)
    /\ UNCHANGED <<registry, lockWriter, lockReaders, clock, lastResult,
                   nextSerial, returned, nclosed, matVars, cellVars, bldVars, exeVars, schVars>>

\* Faulty variant: close_connection reporting an id it does not know
CloseResultUnknownIsError(map, id) ==
    IF id \in DOMAIN map THEN "Ok" ELSE "NotFound"

\* The result close_connection returns once the entry is removed (line 105)
CloseResult(map, id) == "Ok"

\* close_connection, lines 104-105: remove under the write guard, drop it, Ok(())
CloseRemove(t) ==
    /\ task[t].pc = "wheld" /\ task[t].op = "close_connection"
    /\ registry' = MapRemove(registry, task[t].id)
    /\ lockWriter' = {}
    /\ Return(t, CloseResult(registry, task[t].id))
    /\ nclosed' = [nclosed EXCEPT ![task[t].id] = IF @ < 2 THEN @ + 1 ELSE @]
    /\ UNCHANGED <<lockReaders, lockQueue, clock, calls, nextSerial,
                   returned, matVars, cellVars, bldVars, exeVars, schVars>>

\* The three calls that look a connection up start alike: the task asks for
\* a read guard (mod.rs line 111, api.rs lines 81 and 141). From there on
\* they take the same steps, and the slot records a lookup ("query"), not
\* which of the three it serves.
QueryStart(t, op, id) ==
    /\ MayStart(t)
    /\ op \in QueryOps
    /\ calls' = calls + 1
    /\ task' = [task EXCEPT ![t] = [pc |-> "rwait", op |-> "query", id |-> id,
                                    driver |-> "Sqlite", pool |-> NoPool]]
    /\ Enqueue(t)
    /\ UNCHANGED <<registry, lockWriter, lockReaders, clock, lastResult,
                   nextSerial, returned, nclosed, matVars, cellVars, bldVars, exeVars, schVars>>

ExecuteSqlStart(t, id) == QueryStart(t, "execute_sql", id)
GetSchemaStart(t, id) == QueryStart(t, "get_schema", id)
ExecuteSelectSpecStart(t, id) == QueryStart(t, "execute_select_spec", id)

\* Faulty variant: an unknown id answered with an empty result instead of an error
LookupMissAnswersOk(t) ==
    /\ task[t].pc = "rwait"
    /\ lockQueue # << >> /\ Head(lockQueue) = t
    /\ lockWriter = {}
    /\ ~Found(registry, task[t].id)
    /\ lockQueue' = Tail(lockQueue)
    /\ Return(t, "Ok")
    /\ UNCHANGED <<registry, lockWriter, lockReaders, clock, calls,
                   nextSerial, returned, nclosed, matVars, cellVars, bldVars, exeVars, schVars>>

\* reg.inner.read().await resolves and pools.get(conn_id) finds no entry:
\* ok_or_else(...)? returns "connection not found", the read guard is dropped
LookupMiss(t) ==
    /\ task[t].pc = "rwait"
    /\ lockQueue # << >> /\ Head(lockQueue) = t
    /\ lockWriter = {}
    /\ ~Found(registry, task[t].id)
    /\ lockQueue' = Tail(lockQueue)
    /\ Return(t, "NotFound")
    /\ UNCHANGED <<registry, lockWriter, lockReaders, clock, calls,
                   nextSerial, returned, nclosed, matVars, cellVars, bldVars, exeVars, schVars>>

\* Faulty variant: the registry behind a Mutex, one lookup at a time
LookupHitExclusive(t) ==
    /\ task[t].pc = "rwait"
    /\ lockQueue # << >> /\ Head(lockQueue) = t
    /\ lockWriter = {} /\ lockReaders = {}
    /\ Found(registry, task[t].id)
    /\ lockQueue' = Tail(lockQueue)
    /\ lockReaders' = lockReaders \cup {t}
    /\ task' = [task EXCEPT ![t].pc = "exec", ![t].pool = registry[task[t].id]]
    /\ UNCHANGED <<registry, lockWriter, clock, lastResult, calls,
                   nextSerial, returned, nclosed, matVars, cellVars, bldVars, exeVars, schVars>>

\* reg.inner.read().await resolves and pools.get(conn_id) finds the pool:
\* the statement (or the catalog queries, or the built SELECT) goes to the
\* pool and the task waits for the engine with the read guard held
LookupHit(t) ==
    /\ task[t].pc = "rwait"
    /\ lockQueue # << >> /\ Head(lockQueue) = t
    /\ lockWriter = {}
    /\ Found(registry, task[t].id)
    /\ lockQueue' = Tail(lockQueue)
    /\ lockReaders' = lockReaders \cup {t}
    /\ task' = [task EXCEPT ![t].pc = "exec", ![t].pool = registry[task[t].id]]
    /\ UNCHANGED <<registry, lockWriter, clock, lastResult, calls,
                   nextSerial, returned, nclosed, matVars, cellVars, bldVars, exeVars, schVars>>

\* Faulty variant: the call returns and its read guard is never dropped
ExecDoneKeepsGuard(t, r) ==
    /\ task[t].pc = "exec"
    /\ Return(t, r)
    /\ UNCHANGED <<registry, lockWriter, lockReaders, lockQueue, clock, calls,
                   nextSerial, returned, nclosed, matVars, cellVars, bldVars,
                   exeVars, schVars>>

\* fetch_all / inspect_schema returns (rows or an engine error); the call
\* returns and the read guard is dropped
ExecDone(t, r) ==
    /\ task[t].pc = "exec"
    /\ lockReaders' = lockReaders \ {t}
    /\ Return(t, r)
    /\ UNCHANGED <<registry, lockWriter, lockQueue, clock, calls, nextSerial,
                   returned, nclosed, matVars, cellVars, bldVars, exeVars, schVars>>

-----------------------------------------------------------------------------
(* Result materializer: db/mod.rs rows_to_result_sqlite / _pg / _mysql.    *)

MaxRows == 3
MaxCap == 3
MaxBytes == 3

\* The extractions row.try_get::<T, _>(i) is asked for, by T.
ExtractTypes == {"i64", "f64", "bool", "String", "Vec<u8>"}

\* A driver cell: ok is the set of T for which try_get::<T> returns Ok, and
\* the other fields are the values those extractions yield. An f64 is kept
\* by its printed form; a String as the sequence of its characters.
Values_i64 == {0 - 1, 7}
Values_f64 == {"1.5", "NaN"}
Values_String == {<<"a">>}
Bytes == {0, 77, 255}

RECURSIVE SeqsUpTo(_, _)
SeqsUpTo(S, n) ==
    IF n = 0 THEN {<< >>}
    ELSE LET shorter == SeqsUpTo(S, n - 1)
         IN  shorter \cup {Append(q, x) : q \in {r \in shorter : Len(r) = n - 1},
                                          x \in S}

Cells == [ok : SUBSET ExtractTypes, i64 : Values_i64, f64 : Values_f64,
          bool : BOOLEAN, String : Values_String,
          bytes : SeqsUpTo(Bytes, MaxBytes)]

\* serde_json::Value
Null == [kind |-> "Null"]
ValueFrom_i64(v) == [kind |-> "Int", i |-> v]
\* Value::from(f64) is Number::from_f64(f).map_or(Null, Number): a NaN or an
\* infinity has no JSON number
ValueFrom_f64(v) ==
    IF v \in {"NaN", "inf", "-inf"} THEN Null ELSE [kind |-> "Float", f |-> v]
ValueFrom_bool(v) == [kind |-> "Bool", b |-> v]
ValueFrom_String(v) == [kind |-> "String", s |-> v]

\* base64 STANDARD alphabet, '=' padding
B64Alphabet ==
    <<"A","B","C","D","E","F","G","H","I","J","K","L","M","N","O","P",
      "Q","R","S","T","U","V","W","X","Y","Z","a","b","c","d","e","f",
      "g","h","i","j","k","l","m","n","o","p","q","r","s","t","u","v",
      "w","x","y","z","0","1","2","3","4","5","6","7","8","9","+","/">>
B64Char(n) == B64Alphabet[n + 1]

\* STANDARD.encode(bytes): three bytes become four characters, a last group
\* of one or two bytes is padded with '='
RECURSIVE STANDARD_encode(_)
STANDARD_encode(bs) ==
    IF Len(bs) = 0 THEN << >>
    ELSE IF Len(bs) = 1 THEN
        <<B64Char(bs[1] \div 4), B64Char((bs[1] % 4) * 16), "=", "=">>
    ELSE IF Len(bs) = 2 THEN
        <<B64Char(bs[1] \div 4),
          B64Char((bs[1] % 4) * 16 + bs[2] \div 16),
          B64Char((bs[2] % 16) * 4), "=">>
    ELSE
        <<B64Char(bs[1] \div 4),
          B64Char((bs[1] % 4) * 16 + bs[2] \div 16),
          B64Char((bs[2] % 16) * 4 + bs[3] \div 64),
          B64Char(bs[3] % 64)>>
        \o STANDARD_encode(SubSeq(bs, 4, Len(bs)))

\* row.try_get::<T, _>(i) is Ok
TryGetOk(cell, T) == T \in cell.ok

\* rows_to_result_sqlite, lines 175-187: the if-let chain over one cell
cell_value_sqlite(cell) ==
    IF TryGetOk(cell, "i64") THEN ValueFrom_i64(cell.i64)
    ELSE IF TryGetOk(cell, "f64") THEN ValueFrom_f64(cell.f64)
    ELSE IF TryGetOk(cell, "bool") THEN ValueFrom_bool(cell.bool)
    ELSE IF TryGetOk(cell, "String") THEN ValueFrom_String(cell.String)
    ELSE IF TryGetOk(cell, "Vec<u8>")
         THEN ValueFrom_String(STANDARD_encode(cell.bytes))
    ELSE Null

\* rows_to_result_pg, lines 217-229
cell_value_pg(cell) ==
    IF TryGetOk(cell, "i64") THEN ValueFrom_i64(cell.i64)
    ELSE IF TryGetOk(cell, "f64") THEN ValueFrom_f64(cell.f64)
    ELSE IF TryGetOk(cell, "bool") THEN ValueFrom_bool(cell.bool)
    ELSE IF TryGetOk(cell, "String") THEN ValueFrom_String(cell.String)
    ELSE IF TryGetOk(cell, "Vec<u8>")
         THEN ValueFrom_String(STANDARD_encode(cell.bytes))
    ELSE Null

\* Faulty variant: bool is tried before the numbers
cell_value_bool_first(cell) ==
    IF TryGetOk(cell, "bool") THEN ValueFrom_bool(cell.bool)
    ELSE IF TryGetOk(cell, "i64") THEN ValueFrom_i64(cell.i64)
    ELSE IF TryGetOk(cell, "f64") THEN ValueFrom_f64(cell.f64)
    ELSE IF TryGetOk(cell, "String") THEN ValueFrom_String(cell.String)
    ELSE IF TryGetOk(cell, "Vec<u8>")
         THEN ValueFrom_String(STANDARD_encode(cell.bytes))
    ELSE Null

\* rows_to_result_mysql, lines 259-271
cell_value_mysql(cell) ==
    IF TryGetOk(cell, "i64") THEN ValueFrom_i64(cell.i64)
    ELSE IF TryGetOk(cell, "f64") THEN ValueFrom_f64(cell.f64)
    ELSE IF TryGetOk(cell, "bool") THEN ValueFrom_bool(cell.bool)
    ELSE IF TryGetOk(cell, "String") THEN ValueFrom_String(cell.String)
    ELSE IF TryGetOk(cell, "Vec<u8>")
         THEN ValueFrom_String(STANDARD_encode(cell.bytes))
    ELSE Null

cell_value(d, cell) ==
    CASE d = "Sqlite"   -> cell_value_sqlite(cell)
      [] d = "Postgres" -> cell_value_pg(cell)
      [] d = "MySql"    -> cell_value_mysql(cell)

\* The rows fetch_all hands over. A row carries its own columns, and
\* row.len() is the number of them. fetch_all collects the rows of every
\* statement of the SQL text, so the rows of one result need not be alike
\* when the text execute_sql is given holds several statements.
DefaultCell == [ok |-> {}, i64 |-> 7, f64 |-> "1.5", bool |-> TRUE,
                String |-> <<"a">>, bytes |-> <<77>>]
IntCell == [DefaultCell EXCEPT !.ok = {"i64", "bool"}]
TextCell == [DefaultCell EXCEPT !.ok = {"String", "Vec<u8>"}]
BlobCell == [DefaultCell EXCEPT !.ok = {"Vec<u8>"}]
NullCell == DefaultCell

DriverRows ==
    { [columns |-> <<"id", "name">>, cells |-> <<IntCell, TextCell>>],
      [columns |-> <<"id", "name">>, cells |-> <<IntCell, NullCell>>],
      [columns |-> <<"n">>, cells |-> <<BlobCell>>] }

\* One statement yields rows that all have the columns of the first.
SameColumns(rws) == \A i \in 1..Len(rws) : rws[i].columns = rws[1].columns

\* Faulty variant: the columns are read from every row visited
ColumnsOfEachRow(idx, row, columns) == row.columns

\* lines 162-168: the columns are read when idx == 0 (the first row)
ColumnsAt(idx, row, columns) == IF idx = 1 THEN row.columns ELSE columns

\* Faulty variant: the loop stops one row late
CapExceeded(out, cp) == Len(out) > cp

\* line 169: if out.len() >= cap { break; }
CapReached(out, cp) == Len(out) >= cp

\* line 192: let truncated = out.len() >= cap;
Truncated(out, cp) == Len(out) >= cp

\* lines 172-189: rec holds one value per cell, 0..row.len()
Rec(d, row) == [i \in 1..Len(row.cells) |-> cell_value(d, row.cells[i])]

\* lines 161-190: the for loop over rows.into_iter().enumerate()
RECURSIVE RowsLoop(_, _, _, _, _, _)
RowsLoop(d, rws, cp, idx, columns, out) ==
    IF idx > Len(rws) THEN [columns |-> columns, out |-> out]
    ELSE LET row == rws[idx]
             cols == ColumnsAt(idx, row, columns)
         IN  IF CapReached(out, cp) THEN [columns |-> cols, out |-> out]
             ELSE RowsLoop(d, rws, cp, idx + 1, cols, Append(out, Rec(d, row)))

rows_to_result(d, rws, cp) ==
    LET r == RowsLoop(d, rws, cp, 1, << >>, << >>)
    IN  [columns |-> r.columns, rows |-> r.out, truncated |-> Truncated(r.out, cp)]

rows_to_result_sqlite(rws, cp) == rows_to_result("Sqlite", rws, cp)
rows_to_result_pg(rws, cp) == rows_to_result("Postgres", rws, cp)
rows_to_result_mysql(rws, cp) == rows_to_result("MySql", rws, cp)

\* execute_sql / execute_sql_with_binds on a Sqlite pool, after fetch_all
MaterializeSqlite ==
    /\ usedDialect = "none"
    /\ result' = rows_to_result_sqlite(rows, cap)
    /\ usedDialect' = "Sqlite"
    /\ UNCHANGED <<rows, cap, regVars, cellVars, bldVars, exeVars, schVars>>

\* the same on a Postgres pool: a prepared statement is one statement
MaterializePg ==
    /\ usedDialect = "none"
    /\ SameColumns(rows)
    /\ result' = rows_to_result_pg(rows, cap)
    /\ usedDialect' = "Postgres"
    /\ UNCHANGED <<rows, cap, regVars, cellVars, bldVars, exeVars, schVars>>

\* the same on a MySql pool: a prepared statement is one statement
MaterializeMysql ==
    /\ usedDialect = "none"
    /\ SameColumns(rows)
    /\ result' = rows_to_result_mysql(rows, cap)
    /\ usedDialect' = "MySql"
    /\ UNCHANGED <<rows, cap, regVars, cellVars, bldVars, exeVars, schVars>>

\* One cell through the if-let chain of the dialect d
ConvertCell(d) ==
    /\ d \notin DOMAIN cellOut
    /\ cellOut' = [x \in DOMAIN cellOut \cup {d} |->
                     IF x = d THEN cell_value(d, cellIn) ELSE cellOut[x]]
    /\ UNCHANGED <<cellIn, regVars, matVars, bldVars, exeVars, schVars>>

-----------------------------------------------------------------------------
(* Query builder: db/builder.rs. The statements are rendered by sea-query  *)
(* (build_sqlx): every Value of a statement is written as a parameter      *)
(* placeholder and pushed on the value list, identifiers are quoted.       *)

MaxFilters == 2

\* A 64-bit magnitude is kept as its four 16-bit limbs, most significant
\* first; an i64 as its sign and magnitude.
NoWord == << >>
NoBig == [neg |-> FALSE, mag |-> NoWord]
BigI64(neg, mag) == [neg |-> neg, mag |-> mag]
AboveI64Max(w) == w[1] >= 32768

\* serde_json::Value as the UI sends it. A number is an integer that fits a
\* machine word of the model (I64: as_i64 is Some), a non-negative integer
\* given by its limbs (PosInt: as_u64 is Some, as_i64 is Some up to
\* i64::MAX), a negative integer given by the limbs of its magnitude
\* (NegInt: as_i64 is Some) or an f64 (kept by its printed form). Strings
\* are kept as the sequence of their characters.
JsonValue(kind) ==
    [kind |-> kind, b |-> FALSE, i |-> 0, s |-> << >>, arr |-> << >>, w |-> NoWord]
JsonNull == JsonValue("Null")
JsonBool(b) == [JsonValue("Bool") EXCEPT !.b = b]
JsonI64(i) == [JsonValue("I64") EXCEPT !.i = i]
JsonPosInt(w) == [JsonValue("PosInt") EXCEPT !.w = w]
JsonNegInt(w) == [JsonValue("NegInt") EXCEPT !.w = w]
JsonF64(f) == [JsonValue("F64") EXCEPT !.s = f]
JsonString(s) == [JsonValue("String") EXCEPT !.s = s]
JsonArray(a) == [JsonValue("Array") EXCEPT !.arr = a]
JsonObject == JsonValue("Object")

\* sea_query::Value, the bound parameter. null: the None of the type; i or
\* big is the integer (big when it was given by its limbs); text_of: the
\* value whose to_string() is the bound text.
SeaValue(ty) == [ty |-> ty, null |-> FALSE, b |-> FALSE, i |-> 0, big |-> NoBig,
                 s |-> << >>, is_json |-> FALSE, text_of |-> JsonNull]

\* w + carry, from limb k up to the most significant, modulo 2^64
RECURSIVE AddCarry(_, _, _)
AddCarry(w, k, carry) ==
    IF k = 0 THEN w
    ELSE AddCarry([w EXCEPT ![k] = (w[k] + carry) % 65536], k - 1,
                  (w[k] + carry) \div 65536)

\* Faulty variant: a cast that stops at i64::MAX
u64_as_i64_saturating(u) ==
    IF AboveI64Max(u) THEN BigI64(FALSE, <<32767, 65535, 65535, 65535>>)
    ELSE BigI64(FALSE, u)

\* u as i64 (line 37): the 64 bits of u read as two's complement, so with
\* the top bit set the value is negative and its magnitude is the
\* complement of the bits plus one
u64_as_i64(u) ==
    IF AboveI64Max(u)
    THEN BigI64(TRUE, AddCarry([k \in 1..4 |-> 65535 - u[k]], 4, 1))
    ELSE BigI64(FALSE, u)

\* json_to_simple, lines 31-47
json_to_simple(val) ==
    CASE val.kind = "Null"   -> [SeaValue("Int") EXCEPT !.null = TRUE]
      [] val.kind = "Bool"   -> [SeaValue("Bool") EXCEPT !.b = val.b]
      [] val.kind = "I64"    -> [SeaValue("BigInt") EXCEPT !.i = val.i]
      [] val.kind = "PosInt" ->
             IF ~AboveI64Max(val.w)
             THEN [SeaValue("BigInt") EXCEPT !.big = BigI64(FALSE, val.w)]
             ELSE [SeaValue("BigInt") EXCEPT !.big = u64_as_i64(val.w)]
      [] val.kind = "NegInt" -> [SeaValue("BigInt") EXCEPT !.big = BigI64(TRUE, val.w)]
      [] val.kind = "F64"    -> [SeaValue("Double") EXCEPT !.s = val.s]
      [] val.kind = "String" -> [SeaValue("String") EXCEPT !.s = val.s]
      [] val.kind \in {"Array", "Object"} ->
             [SeaValue("String") EXCEPT !.is_json = TRUE, !.text_of = val]

\* Faulty variant: the elements of the array taken last to first
json_array_to_simples_reversed(vals) ==
    IF vals.kind = "Array"
    THEN [k \in 1..Len(vals.arr) |-> json_to_simple(vals.arr[Len(vals.arr) + 1 - k])]
    ELSE <<json_to_simple(vals)>>

\* json_array_to_simples, lines 49-54
json_array_to_simples(vals) ==
    IF vals.kind = "Array"
    THEN [k \in 1..Len(vals.arr) |-> json_to_simple(vals.arr[k])]
    ELSE <<json_to_simple(vals)>>

\* cond.value.as_str().unwrap_or_default(), lines 82-83
as_str_or_default(val) ==
    [SeaValue("String") EXCEPT !.s = IF val.kind = "String" THEN val.s ELSE << >>]

\* The SQL text as the pieces the writer emits: fixed text, a quoted
\* identifier (q names the quote of the dialect), a parameter placeholder
\* (numbered from 1 for Postgres: $1, $2, ...; a bare ? otherwise).
Quote(d) == IF d = "MySql" THEN "backtick" ELSE "double quote"
Text(s) == [k |-> "text", s |-> s, q |-> "", n |-> 0]
Ident(d, name) == [k |-> "ident", s |-> name, q |-> Quote(d), n |-> 0]
Placeholder == [k |-> "param", s |-> "?", q |-> "", n |-> 0]

\* An expression under construction: its text and the values it binds
NoSql == [sql |-> << >>, values |-> << >>]
Cat(a, b) == [sql |-> a.sql \o b.sql, values |-> a.values \o b.values]
Lit(s) == [sql |-> <<Text(s)>>, values |-> << >>]

\* Faulty variant: the value is written into the text instead of being bound
ExprValInline(v) ==
    [sql |-> <<[k |-> "value", s |-> v.s, q |-> "single quote", n |-> v.i]>>, values |-> << >>]

\* Expr::val(v): one placeholder, one bound value (a None is bound as well)
ExprVal(v) == [sql |-> <<Placeholder>>, values |-> <<v>>]

\* Expr::col((Alias::new(table), Alias::new(column)))
ExprCol(d, table, column) ==
    [sql |-> <<Ident(d, table), Text("."), Ident(d, column)>>, values |-> << >>]

\* a, b, c: the items of a list separated by commas
RECURSIVE CommaList(_)
CommaList(items) ==
    IF Len(items) = 0 THEN NoSql
    ELSE IF Len(items) = 1 THEN items[1]
    ELSE Cat(Cat(items[1], Lit(",")), CommaList(Tail(items)))

\* col.is_in(vs) / col.is_not_in(vs): an empty list is rendered as the
\* comparison of two bound constants, 1 = 2 (never true) and 1 = 1
ExprIn(col, oper, vs) ==
    IF Len(vs) = 0
    THEN Cat(Cat(ExprVal([SeaValue("Int") EXCEPT !.i = 1]), Lit("=")),
             ExprVal([SeaValue("Int") EXCEPT !.i = IF oper = "IN" THEN 2 ELSE 1]))
    ELSE Cat(Cat(Cat(Cat(col, Lit(oper)), Lit("(")),
                 CommaList([k \in 1..Len(vs) |-> ExprVal(vs[k])])), Lit(")"))

\* col.eq(v), col.ne(v), ...: column, operator, value
ExprBinary(col, oper, v) == Cat(Cat(col, Lit(oper)), ExprVal(v))

KnownOps == {"=", "!=", ">", ">=", "<", "<=", "like", "not_like", "is_null",
             "is_not_null", "in", "not_in"}

\* Faulty variant: in / not_in bind the whole array as one value
select_filter_expr_in_as_scalar(d, table, cond) ==
    LET col == ExprCol(d, table, cond.column)
    IN  CASE cond.op = "="  -> ExprBinary(col, "=", json_to_simple(cond.value))
          [] cond.op = "!=" -> ExprBinary(col, "<>", json_to_simple(cond.value))
          [] cond.op = ">"  -> ExprBinary(col, ">", json_to_simple(cond.value))
          [] cond.op = ">=" -> ExprBinary(col, ">=", json_to_simple(cond.value))
          [] cond.op = "<"  -> ExprBinary(col, "<", json_to_simple(cond.value))
          [] cond.op = "<=" -> ExprBinary(col, "<=", json_to_simple(cond.value))
          [] cond.op = "like" -> ExprBinary(col, "LIKE", as_str_or_default(cond.value))
          [] cond.op = "not_like" ->
                 ExprBinary(col, "NOT LIKE", as_str_or_default(cond.value))
          [] cond.op = "is_null" -> Cat(col, Lit("IS NULL"))
          [] cond.op = "is_not_null" -> Cat(col, Lit("IS NOT NULL"))
          [] cond.op = "in" -> ExprIn(col, "IN", <<json_to_simple(cond.value)>>)
          [] cond.op = "not_in" -> ExprIn(col, "NOT IN", <<json_to_simple(cond.value)>>)
          [] OTHER -> ExprBinary(col, "=", json_to_simple(cond.value))

\* Faulty variant: an unknown operator is taken for !=
select_filter_expr_unknown_as_ne(d, table, cond) ==
    LET col == ExprCol(d, table, cond.column)
    IN  CASE cond.op = "="  -> ExprBinary(col, "=", json_to_simple(cond.value))
          [] cond.op = "!=" -> ExprBinary(col, "<>", json_to_simple(cond.value))
          [] cond.op = ">"  -> ExprBinary(col, ">", json_to_simple(cond.value))
          [] cond.op = ">=" -> ExprBinary(col, ">=", json_to_simple(cond.value))
          [] cond.op = "<"  -> ExprBinary(col, "<", json_to_simple(cond.value))
          [] cond.op = "<=" -> ExprBinary(col, "<=", json_to_simple(cond.value))
          [] cond.op = "like" -> ExprBinary(col, "LIKE", as_str_or_default(cond.value))
          [] cond.op = "not_like" ->
                 ExprBinary(col, "NOT LIKE", as_str_or_default(cond.value))
          [] cond.op = "is_null" -> Cat(col, Lit("IS NULL"))
          [] cond.op = "is_not_null" -> Cat(col, Lit("IS NOT NULL"))
          [] cond.op = "in" -> ExprIn(col, "IN", json_array_to_simples(cond.value))
          [] cond.op = "not_in" ->
                 ExprIn(col, "NOT IN", json_array_to_simples(cond.value))
          [] OTHER -> ExprBinary(col, "<>", json_to_simple(cond.value))

\* build_select, lines 74-89: the predicate of one filter
select_filter_expr(d, table, cond) ==
    LET col == ExprCol(d, table, cond.column)
    IN  CASE cond.op = "="  -> ExprBinary(col, "=", json_to_simple(cond.value))
          [] cond.op = "!=" -> ExprBinary(col, "<>", json_to_simple(cond.value))
          [] cond.op = ">"  -> ExprBinary(col, ">", json_to_simple(cond.value))
          [] cond.op = ">=" -> ExprBinary(col, ">=", json_to_simple(cond.value))
          [] cond.op = "<"  -> ExprBinary(col, "<", json_to_simple(cond.value))
          [] cond.op = "<=" -> ExprBinary(col, "<=", json_to_simple(cond.value))
          [] cond.op = "like" -> ExprBinary(col, "LIKE", as_str_or_default(cond.value))
          [] cond.op = "not_like" ->
                 ExprBinary(col, "NOT LIKE", as_str_or_default(cond.value))
          [] cond.op = "is_null" -> Cat(col, Lit("IS NULL"))
          [] cond.op = "is_not_null" -> Cat(col, Lit("IS NOT NULL"))
          [] cond.op = "in" -> ExprIn(col, "IN", json_array_to_simples(cond.value))
          [] cond.op = "not_in" ->
                 ExprIn(col, "NOT IN", json_array_to_simples(cond.value))
          [] OTHER -> ExprBinary(col, "=", json_to_simple(cond.value))

\* Faulty variant: UPDATE filters with the operators of SELECT
update_filter_expr_as_select(d, table, cond) == select_filter_expr(d, table, cond)

\* build_update, lines 151-156
update_filter_expr(d, table, cond) ==
    LET col == ExprCol(d, table, cond.column)
    IN  CASE cond.op = "="  -> ExprBinary(col, "=", json_to_simple(cond.value))
          [] cond.op = "!=" -> ExprBinary(col, "<>", json_to_simple(cond.value))
          [] OTHER -> ExprBinary(col, "=", json_to_simple(cond.value))

\* build_delete, lines 178-183
delete_filter_expr(d, table, cond) ==
    LET col == ExprCol(d, table, cond.column)
    IN  CASE cond.op = "="  -> ExprBinary(col, "=", json_to_simple(cond.value))
          [] cond.op = "!=" -> ExprBinary(col, "<>", json_to_simple(cond.value))
          [] OTHER -> ExprBinary(col, "=", json_to_simple(cond.value))

\* stmt.and_where(expr), once per filter: WHERE e1 AND e2 ...
RECURSIVE AndList(_)
AndList(exprs) ==
    IF Len(exprs) = 1 THEN exprs[1]
    ELSE Cat(Cat(exprs[1], Lit("AND")), AndList(Tail(exprs)))

WhereClause(exprs) ==
    IF Len(exprs) = 0 THEN NoSql ELSE Cat(Lit("WHERE"), AndList(exprs))

\* Postgres numbers the placeholders in the order they are written
RECURSIVE NumberParams(_, _)
NumberParams(toks, next) ==
    IF Len(toks) = 0 THEN << >>
    ELSE IF Head(toks).k = "param"
         THEN <<[Head(toks) EXCEPT !.s = "$", !.n = next]>>
              \o NumberParams(Tail(toks), next + 1)
         ELSE <<Head(toks)>> \o NumberParams(Tail(toks), next)

\* stmt.build_sqlx(PostgresQueryBuilder | MysqlQueryBuilder | SqliteQueryBuilder)
build_sqlx(stmt, d) ==
    [sql |-> IF d = "Postgres" THEN NumberParams(stmt.sql, 1) ELSE stmt.sql,
     values |-> stmt.values]

\* Option<T>
None == [some |-> FALSE, n |-> 0, col |-> "", asc |-> TRUE]
SomeU64(n) == [None EXCEPT !.some = TRUE, !.n = n]
SomeSort(col, asc) == [None EXCEPT !.some = TRUE, !.col = col, !.asc = asc]

\* lines 62-68: the column list, or * when it is empty
SelectColumns(spec, d) ==
    IF Len(spec.columns) = 0 THEN Lit("*")
    ELSE CommaList([k \in 1..Len(spec.columns) |->
                       ExprCol(d, spec.table, spec.columns[k])])

\* Faulty variant: the direction asked for is dropped, the order is ascending
SelectOrderAlwaysAsc(spec, d) ==
    IF spec.sort.some
    THEN Cat(Cat(Lit("ORDER BY"), ExprCol(d, spec.table, spec.sort.col)),
             Lit("ASC"))
    ELSE NoSql

\* lines 94-99: ORDER BY table.column ASC | DESC
SelectOrder(spec, d) ==
    IF spec.sort.some
    THEN Cat(Cat(Lit("ORDER BY"), ExprCol(d, spec.table, spec.sort.col)),
             Lit(IF spec.sort.asc THEN "ASC" ELSE "DESC"))
    ELSE NoSql

\* lines 101-102: LIMIT and OFFSET, each a bound value
SelectLimitOffset(spec) ==
    Cat(IF spec.limit.some
        THEN Cat(Lit("LIMIT"),
                 ExprVal([SeaValue("BigUnsigned") EXCEPT !.i = spec.limit.n]))
        ELSE NoSql,
        IF spec.offset.some
        THEN Cat(Lit("OFFSET"),
                 ExprVal([SeaValue("BigUnsigned") EXCEPT !.i = spec.offset.n]))
        ELSE NoSql)

\* build_select, lines 58-109
build_select(spec, d) ==
    build_sqlx(
        Cat(Cat(Cat(Cat(Cat(Cat(Lit("SELECT"), SelectColumns(spec, d)),
                            Lit("FROM")),
                        [sql |-> <<Ident(d, spec.table)>>, values |-> << >>]),
                    WhereClause([k \in 1..Len(spec.filters) |->
                        select_filter_expr(d, spec.table, spec.filters[k])])),
                SelectOrder(spec, d)),
            SelectLimitOffset(spec)), d)

\* build_insert, lines 119-133: INSERT INTO t (cols) VALUES (binds)
build_insert(spec, d) ==
    build_sqlx(
        Cat(Cat(Cat(Cat(Cat(Cat(Lit("INSERT INTO"),
                                [sql |-> <<Ident(d, spec.table)>>, values |-> << >>]),
                            Lit("(")),
                        CommaList([k \in 1..Len(spec.values) |->
                            [sql |-> <<Ident(d, spec.values[k].column)>>,
                             values |-> << >>]])),
                    Lit(") VALUES (")),
                CommaList([k \in 1..Len(spec.values) |->
                    ExprVal(json_to_simple(spec.values[k].value))])),
            Lit(")")), d)

\* build_update, lines 142-165: UPDATE t SET col = bind, ... WHERE ...
build_update(spec, d) ==
    build_sqlx(
        Cat(Cat(Cat(Cat(Lit("UPDATE"),
                        [sql |-> <<Ident(d, spec.table)>>, values |-> << >>]),
                    Lit("SET")),
                CommaList([k \in 1..Len(spec.values) |->
                    Cat(Cat([sql |-> <<Ident(d, spec.values[k].column)>>,
                             values |-> << >>], Lit("=")),
                        ExprVal(json_to_simple(spec.values[k].value)))])),
            WhereClause([k \in 1..Len(spec.filters) |->
                update_filter_expr(d, spec.table, spec.filters[k])])), d)

\* build_delete, lines 173-192: DELETE FROM t WHERE ...
build_delete(spec, d) ==
    build_sqlx(
        Cat(Cat(Lit("DELETE FROM"),
                [sql |-> <<Ident(d, spec.table)>>, values |-> << >>]),
            WhereClause([k \in 1..Len(spec.filters) |->
                delete_filter_expr(d, spec.table, spec.filters[k])])), d)

\* The specs the UI sends, over the table users(id, name, active). An
\* offset comes with a limit.
SqlOps == KnownOps \cup {"bogus"}

FilterCond(c, o, v) == [column |-> c, op |-> o, value |-> v]

\* The integers tried: small ones, and by their limbs i64::MAX, 2^63, its
\* neighbours, values whose negation carries through several limbs,
\* u64::MAX and i64::MIN
IntegerValues ==
    {JsonI64(0 - 1), JsonI64(7),
     JsonPosInt(<<0, 0, 1, 0>>),
     JsonPosInt(<<32767, 65535, 65535, 65535>>),
     JsonPosInt(<<32768, 0, 0, 0>>),
     JsonPosInt(<<32768, 0, 0, 1>>),
     JsonPosInt(<<40000, 0, 65535, 0>>),
     JsonPosInt(<<65535, 65535, 0, 0>>),
     JsonPosInt(<<65535, 65535, 65535, 65535>>),
     JsonNegInt(<<32768, 0, 0, 0>>),
     JsonNegInt(<<0, 0, 0, 5>>)}

FilterConds ==
    {FilterCond("active", o, JsonI64(1)) : o \in SqlOps}
    \cup {FilterCond("name", o, JsonString(<<"a", "%">>)) :
             o \in {"=", "like", "not_like", "in", "bogus"}}
    \cup {FilterCond("name", o, JsonNull) : o \in {"=", "in", "bogus"}}
    \cup {FilterCond("name", "like", JsonString(<<"%", "d", "_", "m">>))}
    \cup {FilterCond("id", o, JsonArray(a)) :
             o \in {"=", "in", "not_in"},
             a \in {<< >>, <<JsonI64(1), JsonI64(3)>>}}
    \cup {FilterCond("id", "=", v) : v \in IntegerValues}
    \cup {FilterCond("name", "like", JsonI64(1)),
          FilterCond("active", "=", JsonBool(TRUE)),
          FilterCond("id", ">", JsonF64(<<"1", ".", "5">>)),
          FilterCond("id", "in", JsonArray(<<JsonPosInt(<<65535, 65535, 65535, 65535>>)>>)),
          FilterCond("name", "=", JsonObject)}

\* The filter lists tried: every filter of FilterConds first or last in a
\* list that is filled up with the filters of MoreFilters
MoreFilters ==
    {FilterCond("active", "=", JsonI64(1)),
     FilterCond("name", "like", JsonString(<<"a", "%">>)),
     FilterCond("id", "in", JsonArray(<<JsonI64(1), JsonI64(3)>>))}

FilterLists ==
    {<< >>}
    \cup {<<f>> \o more : f \in FilterConds,
                          more \in SeqsUpTo(MoreFilters, MaxFilters - 1)}
    \cup {more \o <<f>> : f \in FilterConds,
                          more \in SeqsUpTo(MoreFilters, MaxFilters - 1)}

ColumnValue(c, v) == [column |-> c, value |-> v]

ColumnValues ==
    {ColumnValue("name", JsonString(<<"b", "o", "b">>)), ColumnValue("active", JsonNull),
     ColumnValue("id", JsonI64(4))}

BuilderSpec(kind) ==
    [kind |-> kind, table |-> "users", columns |-> << >>, filters |-> << >>,
     sort |-> None, limit |-> None, offset |-> None, values |-> << >>]

SelectSpecs ==
    {[BuilderSpec("select") EXCEPT !.columns = sh.columns, !.sort = sh.sort,
                                   !.limit = sh.limit, !.offset = sh.offset,
                                   !.filters = fs] :
        sh \in {[columns |-> << >>, sort |-> None, limit |-> None,
                 offset |-> None],
                [columns |-> <<"id", "name">>, sort |-> SomeSort("id", TRUE),
                 limit |-> SomeU64(100), offset |-> SomeU64(0)],
                [columns |-> <<"name", "id">>, sort |-> SomeSort("id", FALSE),
                 limit |-> SomeU64(1), offset |-> None],
                [columns |-> << >>, sort |-> None, limit |-> SomeU64(2),
                 offset |-> SomeU64(1)]},
        fs \in FilterLists}

InsertSpecs ==
    {[BuilderSpec("insert") EXCEPT !.values = vs] :
        vs \in SeqsUpTo(ColumnValues, MaxFilters) \ {<< >>}}

UpdateSpecs ==
    {[BuilderSpec("update") EXCEPT !.values = vs, !.filters = fs] :
        vs \in {<<ColumnValue("name", JsonString(<<"b", "o", "b">>))>>,
                <<ColumnValue("active", JsonNull), ColumnValue("id", JsonI64(4))>>},
        fs \in FilterLists}

DeleteSpecs ==
    {[BuilderSpec("delete") EXCEPT !.filters = fs] :
        fs \in FilterLists}

\* The spec with every operator that is none of the twelve replaced by "="
OpsAsEq(spec) ==
    [spec EXCEPT !.filters =
        [k \in 1..Len(spec.filters) |->
            IF spec.filters[k].op \in KnownOps THEN spec.filters[k]
            ELSE [spec.filters[k] EXCEPT !.op = "="]]]

\* Another scalar in the place of each scalar, arrays keeping their length
RECURSIVE Revalue(_)
Revalue(v) ==
    CASE v.kind = "Null"   -> JsonString(<<"z", "z">>)
      [] v.kind = "Bool"   -> JsonNull
      [] v.kind = "I64"    -> JsonString(<<"7">>)
      [] v.kind \in {"PosInt", "NegInt"} -> JsonBool(TRUE)
      [] v.kind = "F64"    -> JsonI64(3)
      [] v.kind = "String" -> JsonI64(5)
      [] v.kind = "Array"  -> JsonArray([k \in 1..Len(v.arr) |-> Revalue(v.arr[k])])
      [] v.kind = "Object" -> JsonObject

\* The spec with other values: same table, columns, operators, sort
Revalued(spec) ==
    [spec EXCEPT
        !.filters = [k \in 1..Len(spec.filters) |->
                        [spec.filters[k] EXCEPT !.value = Revalue(@)]],
        !.values = [k \in 1..Len(spec.values) |->
                        [spec.values[k] EXCEPT !.value = Revalue(@)]],
        !.limit = IF @.some THEN SomeU64(@.n + 1) ELSE @,
        !.offset = IF @.some THEN SomeU64(@.n + 1) ELSE @]

\* The spec with every operator other than "!=" replaced by "="
OpsAsEqOrNe(spec) ==
    [spec EXCEPT !.filters =
        [k \in 1..Len(spec.filters) |->
            IF spec.filters[k].op = "!=" THEN spec.filters[k]
            ELSE [spec.filters[k] EXCEPT !.op = "="]]]

\* The specs a build is applied to: the given one and its relatives
Inputs(spec) ==
    [given |-> spec, asEq |-> OpsAsEq(spec), revalued |-> Revalued(spec),
     eqOrNe |-> OpsAsEqOrNe(spec)]

NotBuilt == [given |-> NoSql, asEq |-> NoSql, revalued |-> NoSql, eqOrNe |-> NoSql]

\* api.rs execute_select_spec, line 144: build_select(&args.spec, dialect)
BuildSelect(d) ==
    /\ bdialect = "none"
    /\ bspec.given.kind = "select"
    /\ built' = [x \in DOMAIN bspec |-> build_select(bspec[x], d)]
    /\ bdialect' = d
    /\ UNCHANGED <<bspec, regVars, matVars, cellVars, exeVars, schVars>>

BuildInsert(d) ==
    /\ bdialect = "none"
    /\ bspec.given.kind = "insert"
    /\ built' = [x \in DOMAIN bspec |-> build_insert(bspec[x], d)]
    /\ bdialect' = d
    /\ UNCHANGED <<bspec, regVars, matVars, cellVars, exeVars, schVars>>

BuildUpdate(d) ==
    /\ bdialect = "none"
    /\ bspec.given.kind = "update"
    /\ built' = [x \in DOMAIN bspec |-> build_update(bspec[x], d)]
    /\ bdialect' = d
    /\ UNCHANGED <<bspec, regVars, matVars, cellVars, exeVars, schVars>>

BuildDelete(d) ==
    /\ bdialect = "none"
    /\ bspec.given.kind = "delete"
    /\ built' = [x \in DOMAIN bspec |-> build_delete(bspec[x], d)]
    /\ bdialect' = d
    /\ UNCHANGED <<bspec, regVars, matVars, cellVars, exeVars, schVars>>

-----------------------------------------------------------------------------
(* A built SELECT run on SQLite: db/mod.rs execute_sql_with_binds, on the  *)
(* table of the test it_sqlite::select_via_builder_and_binds_sqlite,       *)
(* users(id INTEGER PRIMARY KEY, name TEXT, active INTEGER). The engine    *)
(* reads the statement text and the bound values, nothing of the spec.     *)

\* A value stored in the table or bound to a placeholder
SqlNull == [t |-> "null", i |-> 0, s |-> << >>]
SqlInt(i) == [t |-> "int", i |-> i, s |-> << >>]
SqlText(s) == [t |-> "text", i |-> 0, s |-> s]
SqlOther == [t |-> "other", i |-> 0, s |-> << >>]

UsersColumns == <<"id", "name", "active">>
UsersRow(id, name, active) == [id |-> SqlInt(id), name |-> name, active |-> SqlInt(active)]

\* lines 603-607 of the test: the three seeded rows
Alice == UsersRow(1, SqlText(<<"a", "l", "i", "c", "e">>), 1)
Bob == UsersRow(2, SqlText(<<"b", "o", "b">>), 0)
Adam == UsersRow(3, SqlText(<<"a", "d", "a", "m">>), 1)
UsersFixture == <<Alice, Bob, Adam>>

\* The tables tried: the rows of the fixture stored in any order, and the
\* fixture with a NULL name
UsersTables ==
    {[k \in 1..3 |-> UsersFixture[p[k]]] : p \in Permutations(1..3)}
    \cup {<<Alice, [Bob EXCEPT !.name = SqlNull], Adam>>,
          <<Adam, Alice, [Bob EXCEPT !.name = SqlNull]>>}

\* sea-query-binder: the sea_query::Value as SQLite receives it
BindSqlite(v) ==
    IF v.null THEN SqlNull
    ELSE CASE v.ty \in {"Int", "BigInt", "BigUnsigned"} /\ v.big = NoBig -> SqlInt(v.i)
           [] v.ty = "Bool" -> SqlInt(IF v.b THEN 1 ELSE 0)
           [] v.ty = "String" /\ ~v.is_json -> SqlText(v.s)
           [] OTHER -> SqlOther

\* The k-th piece of the statement with its placeholder filled in: ? takes
\* the next value of the list, $n the n-th
BoundAt(sql, values, k) ==
    LET nth == IF sql[k].s = "$" THEN sql[k].n
               ELSE Cardinality({j \in 1..k : sql[j].k = "param"})
    IN  IF sql[k].k = "param" THEN BindSqlite(values[nth]) ELSE SqlNull

\* The position of a keyword in the statement, 0 when it is absent
KeywordAt(sql, word) ==
    LET at == {k \in 1..Len(sql) : sql[k].k = "text" /\ sql[k].s = word}
    IN  IF at = {} THEN 0 ELSE CHOOSE k \in at : \A j \in at : k <= j

\* SQL LIKE: % is any run of characters, _ any one character
RECURSIVE Like(_, _)
Like(pattern, text) ==
    IF Len(pattern) = 0 THEN Len(text) = 0
    ELSE IF Head(pattern) = "%"
         THEN Like(Tail(pattern), text)
              \/ (Len(text) > 0 /\ Like(pattern, Tail(text)))
    ELSE /\ Len(text) > 0
         /\ Head(pattern) = "_" \/ Head(pattern) = Head(text)
         /\ Like(Tail(pattern), Tail(text))

\* Three-valued logic: "T", "F", or "U" when a NULL takes part
Tri(b) == IF b THEN "T" ELSE "F"
TriNot(x) == CASE x = "T" -> "F" [] x = "F" -> "T" [] OTHER -> "U"

\* a oper b for two values of one type
SqlCompare(a, oper, b) ==
    IF a.t = "null" \/ b.t = "null" THEN "U"
    ELSE CASE oper = "="  -> Tri(a = b)
           [] oper = "<>" -> Tri(a # b)
           [] oper = ">"  -> Tri(a.i > b.i)
           [] oper = ">=" -> Tri(a.i >= b.i)
           [] oper = "<"  -> Tri(a.i < b.i)
           [] oper = "<=" -> Tri(a.i <= b.i)
           [] oper = "LIKE" -> Tri(Like(b.s, a.s))
           [] oper = "NOT LIKE" -> Tri(~Like(b.s, a.s))

\* a IN (list): true when some member equals a, unknown when none does but
\* a NULL takes part
SqlIn(a, list) ==
    IF \E b \in list : SqlCompare(a, "=", b) = "T" THEN "T"
    ELSE IF \E b \in list : SqlCompare(a, "=", b) = "U" THEN "U"
    ELSE "F"

\* One predicate of the WHERE clause, the pieces from..to of the statement,
\* on one row: t.c oper ?, t.c IS [NOT] NULL, t.c [NOT] IN (?, ...), ? = ?
SqliteWhereOne(sql, values, from, to, row) ==
    IF sql[from].k = "param"
    THEN SqlCompare(BoundAt(sql, values, from), sql[from + 1].s,
                    BoundAt(sql, values, from + 2))
    ELSE LET x == row[sql[from + 2].s]
             oper == sql[from + 3].s
             list == {BoundAt(sql, values, k) :
                         k \in {j \in from + 4..to : sql[j].k = "param"}}
         IN  CASE oper = "IS NULL" -> Tri(x.t = "null")
               [] oper = "IS NOT NULL" -> Tri(x.t # "null")
               [] oper = "IN" -> SqlIn(x, list)
               [] oper = "NOT IN" -> TriNot(SqlIn(x, list))
               [] OTHER -> SqlCompare(x, oper, BoundAt(sql, values, from + 4))

\* WHERE p1 AND p2 ...: the row is kept when every predicate is true
SqliteWhere(sql, values, row) ==
    LET whereAt == KeywordAt(sql, "WHERE")
        after == {k \in whereAt + 1..Len(sql) :
                     sql[k].k = "text" /\ sql[k].s \in {"ORDER BY", "LIMIT", "OFFSET"}}
        end == IF after = {} THEN Len(sql) + 1
               ELSE CHOOSE k \in after : \A j \in after : k <= j
        ands == {k \in whereAt + 1..end - 1 : sql[k].k = "text" /\ sql[k].s = "AND"}
        starts == {whereAt + 1} \cup {k + 1 : k \in ands}
        EndOf(from) == CHOOSE k \in (ands \cup {end}) :
                           k > from /\ \A j \in ands \cup {end} : j > from => k <= j
    IN  whereAt = 0
        \/ \A from \in starts :
               SqliteWhereOne(sql, values, from, EndOf(from) - 1, row) = "T"

\* ORDER BY t.c ASC | DESC on an integer column: insertion into place
RECURSIVE SortedBy(_, _, _)
SortedBy(rws, col, asc) ==
    IF Len(rws) = 0 THEN << >>
    ELSE LET rest == SortedBy(Tail(rws), col, asc)
             first == Head(rws)
             Before(r) == IF asc THEN r[col].i <= first[col].i
                          ELSE r[col].i >= first[col].i
             n == Cardinality({k \in 1..Len(rest) : Before(rest[k])})
         IN  SubSeq(rest, 1, n) \o <<first>> \o SubSeq(rest, n + 1, Len(rest))

SqliteOrderBy(sql, rws) ==
    LET at == KeywordAt(sql, "ORDER BY")
    IN  IF at = 0 THEN rws
        ELSE SortedBy(rws, sql[at + 3].s, sql[at + 4].s = "ASC")

\* LIMIT ? OFFSET ?
SqliteLimitOffset(sql, values, rws) ==
    LET limitAt == KeywordAt(sql, "LIMIT")
        offsetAt == KeywordAt(sql, "OFFSET")
        skip == IF offsetAt = 0 THEN 0 ELSE BoundAt(sql, values, offsetAt + 1).i
        left == SubSeq(rws, skip + 1, Len(rws))
        keep == IF limitAt = 0 THEN Len(left)
                ELSE BoundAt(sql, values, limitAt + 1).i
    IN  SubSeq(left, 1, IF keep < Len(left) THEN keep ELSE Len(left))

\* SELECT * | t.c, t.c ...: the names of the result columns
SqliteResultColumns(sql) ==
    LET fromAt == KeywordAt(sql, "FROM")
        at == {k \in 2..fromAt - 1 : sql[k].k = "ident" /\ sql[k - 1].s = "."}
        Nth(n) == CHOOSE k \in at : Cardinality({j \in at : j <= k}) = n
    IN  IF sql[2].s = "*" THEN UsersColumns
        ELSE [n \in 1..Cardinality(at) |-> sql[Nth(n)].s]

\* The SqliteRow of one result row: an INTEGER is read as i64 (and as bool),
\* a TEXT as String (and as bytes), a NULL as nothing
SqliteCell(v) ==
    CASE v.t = "int" -> [DefaultCell EXCEPT !.ok = {"i64", "bool"}, !.i64 = v.i]
      [] v.t = "text" -> [DefaultCell EXCEPT !.ok = {"String", "Vec<u8>"}, !.String = v.s]
      [] OTHER -> NullCell

\* sqlx::query_with(sql, values).fetch_all(p): the rows the statement yields
SqliteFetchAll(sql, values, table) ==
    LET kept == SelectSeq(table, LAMBDA row : SqliteWhere(sql, values, row))
        rws == SqliteLimitOffset(sql, values, SqliteOrderBy(sql, kept))
        cols == SqliteResultColumns(sql)
    IN  [k \in 1..Len(rws) |->
            [columns |-> cols,
             cells |-> [c \in 1..Len(cols) |-> SqliteCell(rws[k][cols[c]])]]]

\* The filters tried on the table: values of the type of their column
ExecFilterConds ==
    {FilterCond("active", o, JsonI64(1)) : o \in {"=", "!=", "<", ">=", "bogus"}}
    \cup {FilterCond("id", o, JsonI64(2)) : o \in {">", "<=", "!="}}
    \cup {FilterCond("name", o, JsonString(<<"a", "%">>)) : o \in {"like", "not_like", "="}}
    \cup {FilterCond("name", o, JsonNull) : o \in {"=", "!=", "is_null", "is_not_null", "like"}}
    \cup {FilterCond("id", o, JsonArray(<<JsonI64(1), JsonI64(3)>>)) : o \in {"in", "not_in"}}
    \cup {FilterCond("name", "not_in", JsonArray(<<JsonString(<<"b", "o", "b">>), JsonNull>>)),
          FilterCond("name", "like", JsonString(<<"%", "d", "_", "m">>)),
          FilterCond("name", "=", JsonString(<<"b", "o", "b">>))}

ExecFilterLists ==
    {<< >>}
    \cup {<<f>> \o more : f \in ExecFilterConds,
                          more \in SeqsUpTo(MoreFilters, MaxFilters - 1)}
    \cup {more \o <<f>> : f \in ExecFilterConds,
                          more \in SeqsUpTo(MoreFilters, MaxFilters - 1)}

ExecSelectSpecs ==
    {[sp EXCEPT !.filters = fs] :
        sp \in {s \in SelectSpecs : s.filters = << >>}, fs \in ExecFilterLists}

\* execute_sql_with_binds, lines 285-306, DynPool::Sqlite: fetch_all
\* succeeds and the rows are shaped by rows_to_result_sqlite
ExecuteSelectSqlite ==
    /\ estate = "idle"
    /\ LET b == build_select(espec, "Sqlite")
       IN  eresult' = rows_to_result_sqlite(SqliteFetchAll(b.sql, b.values, etable), ecap)
    /\ estate' = "ok"
    /\ UNCHANGED <<etable, espec, ecap, regVars, matVars, cellVars, bldVars, schVars>>

\* fetch_all(p).await? fails: the error is returned, nothing is shaped
ExecuteSelectFails ==
    /\ estate = "idle"
    /\ estate' = "error"
    /\ UNCHANGED <<etable, espec, ecap, eresult, regVars, matVars, cellVars, bldVars, schVars>>

-----------------------------------------------------------------------------
(* Schema inspection: db/schema.rs inspect_schema and the get_schema       *)
(* command of api.rs. The catalog of the inspected database is the         *)
(* environment: its tables, their columns and foreign keys, and which of   *)
(* the catalog queries and row reads fail.                                 *)

MaxTables == 2

\* Names, in the order the engine sorts them
NameOrder == <<"app", "id", "main", "name", "orders", "public", "users">>
Rank(n) == CHOOSE k \in 1..Len(NameOrder) : NameOrder[k] = n

\* Option<String>
NoString == [some |-> FALSE, s |-> ""]
SomeString(s) == [some |-> TRUE, s |-> s]

\* A column of the catalog: ordinal is its position in the table (cid,
\* attnum, ordinal_position), pk its position in the primary key (0: not
\* part of it), bad the fields of its catalog row that cannot be read as
\* the type try_get asks for
CatalogColumn(ordinal, name, data_type, not_null, default, pk) ==
    [ordinal |-> ordinal, name |-> name, data_type |-> data_type,
     not_null |-> not_null, default |-> default, pk |-> pk, bad |-> {}]

IdColumn == CatalogColumn(1, "id", "int", TRUE, NoString, 1)
NameColumn == CatalogColumn(2, "name", "text", FALSE, SomeString("x"), 0)

\* A foreign key constraint of the catalog: the name it was declared with
\* ("" when the engine named it after its table), the table it refers to,
\* and its pairs of columns <<from, to>>; a key over several columns has
\* several pairs. bad: the fields of its catalog rows that cannot be read
CatalogForeignKey ==
    [name |-> "", ref_schema |-> SomeString("app"), to_table |-> "orders",
     pairs |-> <<<<"id", "id">>>>, bad |-> {}]

CompositeForeignKey ==
    [CatalogForeignKey EXCEPT !.pairs = <<<<"id", "id">>, <<"name", "name">>>>]

\* What the catalog holds about one table, apart from its schema and name:
\* its kind, columns and foreign keys, and what fails when it is inspected
\* (row: reading its row of the table list; columns, foreign_keys: the
\* query for them)
Healthy ==
    [type |-> "table", columns |-> {IdColumn, NameColumn},
     foreign_keys |-> {CatalogForeignKey}, fails |-> {}]

TableVariants ==
    {Healthy,
     [Healthy EXCEPT !.type = "view", !.columns = {IdColumn}, !.foreign_keys = {}],
     [Healthy EXCEPT !.columns = {IdColumn, [NameColumn EXCEPT !.pk = 2]}],
     [Healthy EXCEPT !.fails = {"row"}],
     [Healthy EXCEPT !.fails = {"columns"}],
     [Healthy EXCEPT !.fails = {"foreign_keys"}],
     [Healthy EXCEPT !.columns = {IdColumn, [NameColumn EXCEPT !.bad = {"data_type", "default"}]}],
     [Healthy EXCEPT !.columns = {[IdColumn EXCEPT !.bad = {"name", "not_null", "pk"}]}],
     [Healthy EXCEPT !.foreign_keys = {[CatalogForeignKey EXCEPT !.bad = {"to_table", "ref_schema"}]}],
     [Healthy EXCEPT !.foreign_keys = {CompositeForeignKey}],
     [Healthy EXCEPT !.foreign_keys = {[CatalogForeignKey EXCEPT !.name = "fk"]}]}

\* SQLite has the one schema main
SchemaNames(d) == IF d = "Sqlite" THEN {"main"} ELSE {"app", "public"}
TableNames == {"orders", "users"}

\* The catalogs tried: at most MaxTables tables, no two with the same
\* schema and name
Catalogs(d) ==
    LET ids == SchemaNames(d) \X TableNames
        chosen == {S \in SUBSET ids : Cardinality(S) <= MaxTables}
    IN  UNION {[S -> TableVariants] : S \in chosen}

\* ORDER BY: the members of a set as the sequence in the order of Key, which
\* differs from member to member
OrderBy(S, Key(_)) ==
    CHOOSE s \in [1..Cardinality(S) -> S] :
        \A j, k \in 1..Cardinality(S) : j < k => Key(s[j]) < Key(s[k])

\* The rows of the table list: ... ORDER BY table_schema, table_name (lines
\* 112-115, 212-215), ORDER BY name for SQLite (line 56)
TableKey(id) == Rank(id[1]) * (Len(NameOrder) + 1) + Rank(id[2])
TableList(catalog) == OrderBy(DOMAIN catalog, TableKey)

\* The rows of the column query: ORDER BY a.attnum (line 145), ORDER BY
\* ordinal_position (line 232), PRAGMA table_info in cid order (line 66)
ColumnOrdinal(c) == c.ordinal
ColumnRows(tb) == OrderBy(tb.columns, ColumnOrdinal)

\* The members of a set in some order: the rows of a query that asks for
\* none
RECURSIVE SetToSeq(_)
SetToSeq(S) ==
    IF S = {} THEN << >>
    ELSE LET x == CHOOSE y \in S : TRUE IN <<x>> \o SetToSeq(S \ {x})

\* The name of a constraint: the one declared, or <table>_<column>_fkey
ConstraintName(id, c) ==
    IF c.name # "" THEN c.name
    ELSE IF id[2] = "orders" THEN "orders_id_fkey" ELSE "users_id_fkey"

\* A row of a foreign key query
ForeignKeyRow(from, ref_schema, to_table, to, bad) ==
    [from |-> from, ref_schema |-> ref_schema, to_table |-> to_table,
     to |-> to, bad |-> bad]

\* PRAGMA foreign_key_list (line 80) and KEY_COLUMN_USAGE WHERE
\* referenced_table_name IS NOT NULL (lines 255-260): one row per pair of
\* columns of each constraint of the table
PairRows(catalog, id) ==
    LET rws == SetToSeq(UNION {{<<c, k>> : k \in 1..Len(c.pairs)} :
                                  c \in catalog[id].foreign_keys})
    IN  [n \in 1..Len(rws) |->
            LET c == rws[n][1]
                pair == c.pairs[rws[n][2]]
            IN  ForeignKeyRow(pair[1], c.ref_schema, c.to_table, pair[2], c.bad)]

\* information_schema.table_constraints, the FOREIGN KEY rows: one per
\* constraint (key: the constraint the row stands for)
table_constraints(catalog) ==
    UNION {{[constraint_name |-> ConstraintName(id, c), table_schema |-> id[1],
             table_name |-> id[2], key |-> c] : c \in catalog[id].foreign_keys} :
              id \in DOMAIN catalog}

\* information_schema.key_column_usage: one row per column of a constraint
key_column_usage(catalog) ==
    UNION {{[constraint_name |-> t.constraint_name, table_schema |-> t.table_schema,
             table_name |-> t.table_name, column_name |-> t.key.pairs[k][1]] :
               k \in 1..Len(t.key.pairs)} : t \in table_constraints(catalog)}

\* information_schema.constraint_column_usage: one row per column a
\* constraint refers to; the view names the constraint and its schema, not
\* the table the constraint is on (of: the constraint the row stands for)
constraint_column_usage(catalog) ==
    UNION {{[constraint_name |-> t.constraint_name, constraint_schema |-> t.table_schema,
             table_schema |-> t.key.ref_schema, table_name |-> t.key.to_table,
             column_name |-> t.key.pairs[k][2], of |-> t] :
               k \in 1..Len(t.key.pairs)} : t \in table_constraints(catalog)}

\* lines 165-174: tc JOIN kcu ON the constraint name and the schema, JOIN
\* ccu ON the constraint name and the schema, WHERE tc is a foreign key of
\* the table
JoinRows(catalog, id) ==
    LET joined ==
            {<<tc, kcu, ccu>> \in table_constraints(catalog)
                                  \X key_column_usage(catalog)
                                  \X constraint_column_usage(catalog) :
                /\ tc.table_schema = id[1] /\ tc.table_name = id[2]
                /\ kcu.constraint_name = tc.constraint_name
                /\ kcu.table_schema = tc.table_schema
                /\ ccu.constraint_name = tc.constraint_name
                /\ ccu.constraint_schema = tc.table_schema}
        rws == SetToSeq(joined)
    IN  [n \in 1..Len(rws) |->
            ForeignKeyRow(rws[n][2].column_name, rws[n][3].table_schema,
                          rws[n][3].table_name, rws[n][3].column_name,
                          rws[n][1].key.bad)]

\* The rows of the foreign key query of the dialect for one table
ForeignKeyRows(d, catalog, id) ==
    IF d = "Postgres" THEN JoinRows(catalog, id) ELSE PairRows(catalog, id)

\* r.try_get(field).unwrap_or_default() and its kin: the value read, or the
\* default when the read fails
UnwrapOr(r, field, value, default) == IF field \in r.bad THEN default ELSE value

\* lines 71-77: ColumnDef from a row of PRAGMA table_info
column_def_sqlite(r) ==
    [name |-> UnwrapOr(r, "name", r.name, ""),
     data_type |-> UnwrapOr(r, "data_type", r.data_type, ""),
     not_null |-> UnwrapOr(r, "not_null", IF r.not_null THEN 1 ELSE 0, 0) = 1,
     default |-> UnwrapOr(r, "default", r.default, NoString),
     is_pk |-> UnwrapOr(r, "pk", r.pk, 0) = 1]

\* lines 154-160: ColumnDef from a row of pg_attribute
column_def_postgres(r) ==
    [name |-> UnwrapOr(r, "name", r.name, ""),
     data_type |-> UnwrapOr(r, "data_type", r.data_type, ""),
     not_null |-> UnwrapOr(r, "not_null", r.not_null, FALSE),
     default |-> UnwrapOr(r, "default", r.default, NoString),
     is_pk |-> UnwrapOr(r, "pk", r.pk > 0, FALSE)]

\* lines 241-250: ColumnDef from a row of information_schema.columns
column_def_mysql(r) ==
    LET key == UnwrapOr(r, "pk", IF r.pk > 0 THEN "PRI" ELSE "", "")
    IN  [name |-> UnwrapOr(r, "name", r.name, ""),
         data_type |-> UnwrapOr(r, "data_type", r.data_type, ""),
         not_null |-> UnwrapOr(r, "not_null", IF r.not_null THEN "NO" ELSE "YES", "YES") = "NO",
         default |-> UnwrapOr(r, "default", r.default, NoString),
         is_pk |-> key = "PRI"]

column_def(d, r) ==
    CASE d = "Sqlite"   -> column_def_sqlite(r)
      [] d = "Postgres" -> column_def_postgres(r)
      [] d = "MySql"    -> column_def_mysql(r)

\* lines 85-90, 183-188, 269-274: ForeignKeyDef from a row; SQLite has no
\* schema to refer to, Postgres wraps what it read in Some
foreign_key_def(d, r) ==
    [from |-> UnwrapOr(r, "from", r.from, ""),
     ref_schema |->
        CASE d = "Sqlite"   -> NoString
          [] d = "Postgres" -> SomeString(UnwrapOr(r, "ref_schema", r.ref_schema.s, ""))
          [] d = "MySql"    -> UnwrapOr(r, "ref_schema", r.ref_schema, NoString),
     to_table |-> UnwrapOr(r, "to_table", r.to_table, ""),
     to |-> UnwrapOr(r, "to", r.to, "")]

\* lines 93-99, 191-197, 277-283: the TableDef pushed for one row of the
\* table list
table_def(d, catalog, id) ==
    [schema |-> IF d = "Sqlite" THEN "main" ELSE id[1],
     name |-> id[2],
     type_ |-> catalog[id].type,
     columns |-> [k \in 1..Len(ColumnRows(catalog[id])) |->
                     column_def(d, ColumnRows(catalog[id])[k])],
     foreign_keys |-> [k \in 1..Len(ForeignKeyRows(d, catalog, id)) |->
                          foreign_key_def(d, ForeignKeyRows(d, catalog, id)[k])]]

\* for row in tv { ... tables.push(TableDef { ... }) }
tables_pushed(d, catalog) ==
    [k \in 1..Len(TableList(catalog)) |->
        table_def(d, catalog, TableList(catalog)[k])]

\* schemas.sort(); schemas.dedup(): the schemas of the tables, each once
SortDedup(S) == OrderBy(S, Rank)

\* line 104: vec!["main"]; line 200: the schema of every table, in the order
\* of the tables; lines 286-288: the same, sorted and deduplicated
schemas_of(d, tables) ==
    CASE d = "Sqlite"   -> <<"main">>
      [] d = "Postgres" -> [k \in 1..Len(tables) |-> tables[k].schema]
      [] d = "MySql"    -> SortDedup({tables[k].schema : k \in 1..Len(tables)})

DialectName(d) ==
    CASE d = "Sqlite" -> "sqlite" [] d = "Postgres" -> "postgres" [] d = "MySql" -> "mysql"

\* The ? of the function: the table list query (.await?), the reads of a
\* row of the table list (try_get(...)?), the column and foreign key
\* queries (.await?)
Aborts(listFails, catalog) ==
    listFails \/ \E id \in DOMAIN catalog : catalog[id].fails # {}

\* Result<DatabaseSchema>
InspectError == [ok |-> FALSE, dialect |-> "", schemas |-> << >>, tables |-> << >>]

\* inspect_schema, lines 46-52, and inspect_sqlite / inspect_postgres /
\* inspect_mysql
inspect_schema(d, listFails, catalog) ==
    IF Aborts(listFails, catalog) THEN InspectError
    ELSE [ok |-> TRUE, dialect |-> DialectName(d),
          schemas |-> schemas_of(d, tables_pushed(d, catalog)),
          tables |-> tables_pushed(d, catalog)]

\* serde_json::Map: entry(k).or_insert(v), remove(k), insert(k, v)
OrInsert(obj, k, v) ==
    IF k \in DOMAIN obj THEN obj ELSE [x \in DOMAIN obj \cup {k} |-> IF x = k THEN v ELSE obj[x]]
Remove(obj, k) == [x \in DOMAIN obj \ {k} |-> obj[x]]
Insert(obj, k, v) == [x \in DOMAIN obj \cup {k} |-> IF x = k THEN v ELSE obj[x]]

\* serde_json::to_value of an Option<String>
OptionToValue(o) == IF o.some THEN ValueFrom_String(o.s) ELSE Null

\* serde_json::to_value of a ColumnDef: its fields under their own names
ColumnToValue(c) ==
    [name |-> ValueFrom_String(c.name), data_type |-> ValueFrom_String(c.data_type),
     not_null |-> ValueFrom_bool(c.not_null), default |-> OptionToValue(c.default),
     is_pk |-> ValueFrom_bool(c.is_pk)]

\* api.rs lines 98-105: not_null is taken out and nullable put in
NullableFromNotNull(col) ==
    IF "not_null" \in DOMAIN col
    THEN Insert(Remove(col, "not_null"), "nullable",
                IF col["not_null"].kind = "Bool" THEN ValueFrom_bool(~col["not_null"].b)
                ELSE ValueFrom_bool(TRUE))
    ELSE col

\* api.rs lines 111-115: default is taken out and put in as defaultValue
DefaultValueFromDefault(col) ==
    IF "default" \in DOMAIN col
    THEN Insert(Remove(col, "default"), "defaultValue", col["default"])
    ELSE OrInsert(col, "defaultValue", Null)

\* Faulty variant: data_type is left under its own name
TypeFromDataTypeForgotten(col) == col

\* api.rs lines 117-119: data_type is taken out and put in as type
TypeFromDataType(col) ==
    IF "data_type" \in DOMAIN col
    THEN Insert(Remove(col, "data_type"), "type", col["data_type"])
    ELSE col

\* api.rs lines 96-119: what get_schema does to one column object
NormaliseColumn(col) ==
    TypeFromDataType(
      DefaultValueFromDefault(
        OrInsert(OrInsert(OrInsert(
          OrInsert(NullableFromNotNull(OrInsert(col, "primaryKey", ValueFrom_bool(FALSE))),
                   "nullable", ValueFrom_bool(TRUE)),
          "length", Null), "precision", Null), "scale", Null)))

\* api.rs lines 87-127: the payload of get_schema
SchemaToValue(s) ==
    [dialect |-> s.dialect,
     schemas |-> s.schemas,
     tables |-> [k \in 1..Len(s.tables) |->
        [schema |-> s.tables[k].schema, name |-> s.tables[k].name,
         type_ |-> s.tables[k].type_,
         columns |-> [c \in 1..Len(s.tables[k].columns) |->
                         NormaliseColumn(ColumnToValue(s.tables[k].columns[c]))],
         foreign_keys |-> s.tables[k].foreign_keys]]]

NoPayload == [dialect |-> "", schemas |-> << >>, tables |-> << >>]

\* api.rs get_schema, lines 77-128, on a pool of dialect d: inspect_schema,
\* then the column objects are normalised; an error of inspect_schema is
\* returned as it is
GetSchema(d) ==
    /\ sstate = "idle"
    /\ sdialect = d
    /\ LET s == inspect_schema(d, slistFails, scatalog)
       IN  /\ sresult' = s
           /\ sjson' = IF s.ok THEN SchemaToValue(s) ELSE NoPayload
           /\ sstate' = IF s.ok THEN "ok" ELSE "error"
    /\ UNCHANGED <<sdialect, slistFails, scatalog, regVars, matVars, cellVars,
                   bldVars, exeVars>>

RegInit ==
    /\ registry = << >>
    /\ lockWriter = {}
    /\ lockReaders = {}
    /\ lockQueue = << >>
    /\ clock = 0
    /\ task = [t \in Tasks |-> IdleTask]
    /\ lastResult = "none"
    /\ calls = 0
    /\ nextSerial = 0
    /\ returned = [id \in ConnIds |-> << >>]
    /\ nclosed = [id \in ConnIds |-> 0]

EmptyResult == [columns |-> << >>, rows |-> << >>, truncated |-> FALSE]

MatIdle ==
    /\ rows = << >>
    /\ cap = 0
    /\ result = << >>
    /\ usedDialect = "none"

CellIdle ==
    /\ cellIn = << >>
    /\ cellOut = << >>

\* Nothing is being built, run or inspected
BuildIdle ==
    /\ bspec = << >>
    /\ bdialect = "none"
    /\ built = << >>

ExecIdle ==
    /\ etable = << >>
    /\ espec = << >>
    /\ ecap = 0
    /\ estate = "idle"
    /\ eresult = << >>

SchemaIdle ==
    /\ sdialect = "none"
    /\ slistFails = FALSE
    /\ scatalog = << >>
    /\ sstate = "idle"
    /\ sresult = << >>
    /\ sjson = << >>

Init == RegInit /\ MatIdle /\ CellIdle /\ BuildIdle /\ ExecIdle /\ SchemaIdle

MatInit ==
    /\ RegInit
    /\ CellIdle
    /\ BuildIdle
    /\ ExecIdle
    /\ SchemaIdle
    /\ rows \in SeqsUpTo(DriverRows, MaxRows)
    /\ cap \in 0..MaxCap
    /\ result = EmptyResult
    /\ usedDialect = "none"

CellInit ==
    /\ RegInit
    /\ MatIdle
    /\ BuildIdle
    /\ ExecIdle
    /\ SchemaIdle
    /\ cellIn \in Cells
    /\ cellOut = << >>

Next ==
    \/ \E t \in Tasks, d \in Driver, nanos \in 0..MaxClock : OpenStart(t, d, nanos)
    \/ \E t \in Tasks : ConnectFail(t)
    \/ \E t \in Tasks : ConnectOk(t)
    \/ \E t \in Tasks : AcquireWrite(t)
    \/ \E t \in Tasks : OpenInsert(t)
    \/ \E t \in Tasks, id \in ConnIds : CloseStart(t, id)
    \/ \E t \in Tasks : CloseRemove(t)
    \/ \E t \in Tasks, id \in ConnIds : ExecuteSqlStart(t, id)
    \/ \E t \in Tasks, id \in ConnIds : GetSchemaStart(t, id)
    \/ \E t \in Tasks, id \in ConnIds : ExecuteSelectSpecStart(t, id)
    \/ \E t \in Tasks : LookupMiss(t)
    \/ \E t \in Tasks : LookupHit(t)
    \/ \E t \in Tasks, r \in {"Ok", "ExecError"} : ExecDone(t, r)

Spec == Init /\ [][Next]_vars

MatNext == MaterializeSqlite \/ MaterializePg \/ MaterializeMysql

MatSpec == MatInit /\ [][MatNext]_vars

CellNext == \E d \in Dialect : ConvertCell(d)

CellSpec == CellInit /\ [][CellNext]_vars

BuildInit ==
    /\ RegInit
    /\ MatIdle
    /\ CellIdle
    /\ ExecIdle
    /\ SchemaIdle
    /\ bspec \in {Inputs(sp) : sp \in SelectSpecs \cup InsertSpecs
                                     \cup UpdateSpecs \cup DeleteSpecs}
    /\ bdialect = "none"
    /\ built = NotBuilt

BuildNext ==
    \/ \E d \in Dialect : BuildSelect(d)
    \/ \E d \in Dialect : BuildInsert(d)
    \/ \E d \in Dialect : BuildUpdate(d)
    \/ \E d \in Dialect : BuildDelete(d)

BuildSpec == BuildInit /\ [][BuildNext]_vars

ExecInit ==
    /\ RegInit
    /\ MatIdle
    /\ CellIdle
    /\ BuildIdle
    /\ SchemaIdle
    /\ etable \in UsersTables
    /\ espec \in ExecSelectSpecs
    /\ ecap \in 0..MaxCap
    /\ estate = "idle"
    /\ eresult = EmptyResult

ExecNext == ExecuteSelectSqlite \/ ExecuteSelectFails

ExecSpec == ExecInit /\ [][ExecNext]_vars

SchemaInit ==
    /\ RegInit
    /\ MatIdle
    /\ CellIdle
    /\ BuildIdle
    /\ ExecIdle
    /\ sdialect \in Dialect
    /\ slistFails \in BOOLEAN
    /\ scatalog \in Catalogs(sdialect)
    /\ sstate = "idle"
    /\ sresult = InspectError
    /\ sjson = NoPayload

SchemaNext == \E d \in Dialect : GetSchema(d)

SchemaSpec == SchemaInit /\ [][SchemaNext]_vars

-----------------------------------------------------------------------------
(* Properties of the connection registry (checked under Spec)              *)

\* Dialect mirrors Driver (mod.rs lines 17-31)
DialectOfDriver(d) == d

\* The step in which the call in slot t returns
Returns(t) == task[t].pc # "idle" /\ task'[t].pc = "idle"

\* C1: close_connection is total and idempotent: whatever the registry holds
\* and whatever the id (registered, already closed, never opened), the call
\* returns Ok, the id is absent afterwards and every other entry is as
\* before, so a close of an absent id changes nothing.
C1_CloseTotalIdempotent ==
    [][\A t \in Tasks :
         (task[t].op = "close_connection" /\ Returns(t)) =>
            /\ lastResult' = "Ok"
            /\ DOMAIN registry' = DOMAIN registry \ {task[t].id}
            /\ \A k \in DOMAIN registry' : registry'[k] = registry[k]
            /\ (task[t].id \notin DOMAIN registry => registry' = registry)]_vars

\* C1 witness: an id that an open returned has since been closed twice.
C1_Witness ==
    \E id \in ConnIds :
        /\ returned[id] # << >>
        /\ nclosed[id] = 2
        /\ id \notin DOMAIN registry
        /\ lastResult = "Ok"

\* C2: every id in the registry maps to a pool whose dialect is the driver
\* passed to the open_connection call that returned the id.
C2_DialectMatchesDriver ==
    \A id \in DOMAIN registry :
        \A i \in 1..Len(returned[id]) :
            dialect(registry[id]) = DialectOfDriver(returned[id][i])

\* C3: an open_connection whose pool construction fails returns an error,
\* returns no id and leaves the registry as it was; one that succeeds
\* returns an id that is in the registry when the call returns.
C3_OpenFailureLeavesRegistry ==
    [][\A t \in Tasks :
         /\ (task[t].pc = "connect" /\ task'[t] # task[t] /\ task'[t].pc = "idle") =>
               /\ lastResult' = "ConnectError"
               /\ registry' = registry
               /\ returned' = returned
         /\ (task'[t].pc = "connect" /\ task[t].pc # "connect") =>
               registry' = registry
         /\ (task[t].op = "open_connection" /\ task[t].pc # "connect" /\ Returns(t)) =>
               /\ lastResult' = "Ok"
               /\ task[t].id \in DOMAIN registry'
               /\ returned'[task[t].id] = Append(returned[task[t].id], task[t].driver)]_vars

\* C3 witness: an open_connection has failed after another one succeeded.
C3_Witness ==
    /\ lastResult = "ConnectError"
    /\ \E id \in DOMAIN registry : returned[id] # << >>

\* C4: execute_sql, get_schema and execute_select_spec on an id that is not
\* in the registry return the not-found error, hand nothing to any pool and
\* leave the registry as it was; only an absent id is answered that way.
C4_UnknownIdNotFound ==
    [][\A t \in Tasks :
         (task[t].op = "query" /\ task[t].pc = "rwait" /\ task'[t] # task[t]) =>
            /\ task[t].id \notin DOMAIN registry =>
                  /\ task'[t].pc = "idle"
                  /\ lastResult' = "NotFound"
                  /\ registry' = registry
                  /\ lockReaders' = lockReaders
            /\ task[t].id \in DOMAIN registry =>
                  /\ task'[t].pc = "exec"
                  /\ task'[t].pool = registry[task[t].id]]_vars

\* C4 witness: a lookup of an id that was opened and closed again has been
\* answered with the not-found error.
C4_Witness ==
    /\ lastResult = "NotFound"
    /\ \E id \in ConnIds : returned[id] # << >> /\ id \notin DOMAIN registry

\* C5: every successful open_connection returns an id that no other
\* open_connection of the process has returned, also when two calls read the
\* clock at the same instant.
C5_IdsUnique ==
    \A id \in ConnIds : Len(returned[id]) <= 1

\* C11: the write guard is held only for the map insert or remove: its
\* holder is an open_connection whose pool is already connected or a
\* close_connection, about to change the map, and no call that is suspended
\* on the engine (connecting, or executing a query) holds it.
C11_WriteGuardOnlyForMapChange ==
    \A t \in Tasks :
        /\ t \in lockWriter =>
              /\ task[t].pc = "wheld"
              /\ task[t].op \in {"open_connection", "close_connection"}
              /\ (task[t].op = "open_connection" => task[t].pool # NoPool)
        /\ task[t].pc \in {"connect", "exec"} => t \notin lockWriter

\* C11 witness: an open_connection holds the write guard, its pool
\* connected, while another open_connection is still connecting.
C11_Witness ==
    \E t, u \in Tasks :
        /\ lockWriter = {t}
        /\ task[t].op = "open_connection" /\ task[t].pool # NoPool
        /\ task[u].pc = "connect"

\* C12: a query in flight on one id needs nothing from the lock to complete,
\* and an open_connection or close_connection that is next in line for the
\* write guard is never kept waiting by a query in flight on another id.
C12_NoCrossBlocking ==
    \A t, u \in Tasks :
        /\ task[u].pc = "exec" => u \in lockReaders /\ lockWriter = {}
        /\ (/\ task[t].pc = "wwait"
            /\ lockQueue # << >> /\ Head(lockQueue) = t
            /\ lockWriter = {}
            /\ task[u].pc = "exec") => task[u].id = task[t].id

-----------------------------------------------------------------------------
(* Properties of the result materializer (checked under MatSpec)           *)

Materialized == usedDialect # "none"

Min(a, b) == IF a <= b THEN a ELSE b

\* C6: a driver result of exactly cap rows gives truncated = false; one of
\* cap + 1 rows or more gives exactly cap rows and truncated = true.
C6_TruncationBoundary ==
    Materialized =>
        /\ (Len(rows) = cap => result.truncated = FALSE)
        /\ (Len(rows) >= cap + 1 =>
               Len(result.rows) = cap /\ result.truncated = TRUE)

C8_RowWidthIsColumnCount ==
    (Materialized /\ Len(result.rows) >= 1) =>
        \A i \in 1..Len(result.rows) : Len(result.rows[i]) = Len(result.columns)

\* C9: the columns are those of the first driver row, whatever the cap (also
\* with cap = 0, when no row is returned); a driver result of no rows gives
\* no columns and no rows.
C9_ColumnsFromFirstRow ==
    Materialized =>
        /\ (Len(rows) = 0 => result.columns = << >> /\ result.rows = << >>)
        /\ (Len(rows) >= 1 => result.columns = rows[1].columns)

\* C9 witness: cap = 0 and a driver result of several rows whose first row
\* has other columns than its last.
C9_Witness ==
    /\ Materialized
    /\ cap = 0
    /\ Len(rows) >= 2
    /\ rows[Len(rows)].columns # rows[1].columns
    /\ result.rows = << >>
    /\ result.columns = rows[1].columns

-----------------------------------------------------------------------------
(* Properties of the cell conversion (checked under CellSpec)              *)

\* The order of the extractions
Priority == <<"i64", "f64", "bool", "String", "Vec<u8>">>

\* The first extraction, in that order, that succeeds on the cell (0: none)
Winner(cell) ==
    IF \E k \in 1..Len(Priority) : Priority[k] \in cell.ok
    THEN CHOOSE k \in 1..Len(Priority) :
            /\ Priority[k] \in cell.ok
            /\ \A m \in 1..(k - 1) : Priority[m] \notin cell.ok
    ELSE 0

B64Index(c) == CHOOSE n \in 0..63 : B64Alphabet[n + 1] = c

\* The bytes a base64 text stands for
RECURSIVE B64Decode(_)
B64Decode(cs) ==
    IF Len(cs) < 4 THEN << >>
    ELSE LET a == B64Index(cs[1])
             b == B64Index(cs[2])
             first == <<a * 4 + b \div 16>>
         IN  IF cs[3] = "=" THEN first
             ELSE LET c == B64Index(cs[3])
                      second == <<(b % 16) * 16 + c \div 4>>
                  IN  IF cs[4] = "=" THEN first \o second
                      ELSE first \o second \o <<(c % 4) * 64 + B64Index(cs[4])>>
                           \o B64Decode(SubSeq(cs, 5, Len(cs)))

\* C10: a cell becomes the value of the first extraction that succeeds in
\* the order 64-bit integer, 64-bit float, boolean, string, binary (as the
\* base64 text of the bytes), and null when none succeeds; the three
\* dialects convert alike.
C10_CellPriority ==
    \A d \in DOMAIN cellOut :
        LET w == Winner(cellIn)
            v == cellOut[d]
        IN  CASE w = 0 -> v = Null
              [] w = 1 -> v = [kind |-> "Int", i |-> cellIn.i64]
              [] w = 2 -> v = ValueFrom_f64(cellIn.f64)
              [] w = 3 -> v = [kind |-> "Bool", b |-> cellIn.bool]
              [] w = 4 -> v = [kind |-> "String", s |-> cellIn.String]
              [] w = 5 -> /\ v.kind = "String"
                          /\ Len(v.s) = 4 * ((Len(cellIn.bytes) + 2) \div 3)
                          /\ B64Decode(v.s) = cellIn.bytes

\* C10 witness: all three dialects have converted a cell that is no integer
\* and that the float, boolean and string extractions all accept.
C10_Witness ==
    /\ DOMAIN cellOut = Dialect
    /\ cellIn.ok = {"f64", "bool", "String"}
    /\ \A d \in Dialect : cellOut[d].kind = "Float"

-----------------------------------------------------------------------------
(* Properties of the query builder (checked under BuildSpec)               *)

Built == bdialect # "none"

\* The number of parameter placeholders in a SQL text
Placeholders(sql) == Cardinality({k \in 1..Len(sql) : sql[k].k = "param"})

RECURSIVE SumSeq(_)
SumSeq(ns) == IF Len(ns) = 0 THEN 0 ELSE Head(ns) + SumSeq(Tail(ns))

\* The values a filter refers to: none for is_null / is_not_null, the
\* elements of the array for in / not_in (a value that is no array counts
\* as a list of one), the value itself otherwise
ReferredValues(cond) ==
    IF cond.op \in {"is_null", "is_not_null"} THEN << >>
    ELSE IF cond.op \in {"in", "not_in"} /\ cond.value.kind = "Array"
         THEN cond.value.arr
    ELSE <<cond.value>>

NonNullCount(vs) == Cardinality({k \in 1..Len(vs) : vs[k].kind # "Null"})

\* No in / not_in filter of the spec has an empty array
NoEmptyInList(spec) ==
    \A k \in 1..Len(spec.filters) :
        spec.filters[k].op \in {"in", "not_in"} =>
            Len(ReferredValues(spec.filters[k])) >= 1

LimitOffsetCount(spec) ==
    (IF spec.limit.some THEN 1 ELSE 0) + (IF spec.offset.some THEN 1 ELSE 0)

C15_UnknownOpIsEquality ==
    (Built /\ bspec.given.kind = "select") =>
        /\ built.given.sql = built.asEq.sql
        /\ built.given.values = built.asEq.values
        /\ Len(built.given.sql) >= 4

\* C15 witness: a statement built from a spec with an unknown operator.
C15_Witness ==
    /\ Built
    /\ bspec.given.kind = "select"
    /\ \E k \in 1..Len(bspec.given.filters) :
          /\ bspec.given.filters[k].op \notin KnownOps
          /\ bspec.asEq.filters[k].op = "="
    /\ Len(built.given.values) >= 1

\* C16: for each of the four builders and each dialect, two specs that
\* differ only in their values give the same SQL text; the text holds only
\* fixed text, quoted identifiers of the spec and placeholders.
C16_ValuesNeverInText ==
    Built =>
        /\ built.given.sql = built.revalued.sql
        /\ Len(built.given.values) = Len(built.revalued.values)
        /\ \A k \in 1..Len(built.given.sql) :
              built.given.sql[k].k \in {"text", "ident", "param"}

\* C16 witness: an UPDATE built from two specs whose SET values and filter
\* values all differ.
C16_Witness ==
    /\ Built
    /\ bspec.given.kind = "update"
    /\ Len(bspec.given.filters) >= 1
    /\ Len(built.given.values) >= 2
    /\ \A k \in 1..Len(built.given.values) :
          built.given.values[k] # built.revalued.values[k]

-----------------------------------------------------------------------------
(* Properties of a built SELECT run on SQLite (checked under ExecSpec)     *)

\* The JSON value of a filter as a value of the table
JsonAsSql(v) ==
    CASE v.kind = "Null" -> SqlNull
      [] v.kind = "I64" -> SqlInt(v.i)
      [] v.kind = "String" -> SqlText(v.s)
      [] OTHER -> SqlOther

\* The row satisfies the filter, read from the SelectSpec: a comparison with
\* a null, or of a null, is satisfied by no row; like takes a string
Satisfies(row, cond) ==
    LET x == row[cond.column]
        v == JsonAsSql(cond.value)
        members == IF cond.value.kind = "Array"
                   THEN {JsonAsSql(cond.value.arr[k]) : k \in 1..Len(cond.value.arr)}
                   ELSE {v}
        known == x.t # "null" /\ v.t # "null"
        pattern == IF v.t = "text" THEN v.s ELSE << >>
    IN  CASE cond.op = "!=" -> known /\ x # v
          [] cond.op = ">"  -> known /\ x.i > v.i
          [] cond.op = ">=" -> known /\ x.i >= v.i
          [] cond.op = "<"  -> known /\ x.i < v.i
          [] cond.op = "<=" -> known /\ x.i <= v.i
          [] cond.op = "like" -> x.t = "text" /\ Like(pattern, x.s)
          [] cond.op = "not_like" -> x.t = "text" /\ ~Like(pattern, x.s)
          [] cond.op = "is_null" -> x.t = "null"
          [] cond.op = "is_not_null" -> x.t # "null"
          [] cond.op = "in" -> x.t # "null" /\ x \in members
          [] cond.op = "not_in" ->
                 x.t # "null" /\ x \notin members /\ SqlNull \notin members
          [] OTHER -> known /\ x = v

\* The rows of the table that satisfy every filter, as they are stored
MatchingRows(spec, table) ==
    SelectSeq(table, LAMBDA row :
        \A k \in 1..Len(spec.filters) : Satisfies(row, spec.filters[k]))

\* s is the sequence q put in the order of the sort column (ids differ)
InSortOrder(spec, s) ==
    \A j, k \in 1..Len(s) :
        j < k => IF spec.sort.asc THEN s[j][spec.sort.col].i < s[k][spec.sort.col].i
                 ELSE s[j][spec.sort.col].i > s[k][spec.sort.col].i

Ordered(spec, q) ==
    IF ~spec.sort.some THEN q
    ELSE CHOOSE s \in {[k \in 1..Len(q) |-> q[p[k]]] : p \in Permutations(1..Len(q))} :
             InSortOrder(spec, s)

\* The rows left once offset rows are skipped and at most limit rows kept
Window(spec, q) ==
    LET skipped == SubSeq(q, (IF spec.offset.some THEN spec.offset.n ELSE 0) + 1, Len(q))
    IN  IF spec.limit.some /\ spec.limit.n < Len(skipped)
        THEN SubSeq(skipped, 1, spec.limit.n) ELSE skipped

\* The requested columns, every column of the table when none is requested
RequestedColumns(spec) ==
    IF Len(spec.columns) = 0 THEN UsersColumns ELSE spec.columns

\* A row as the JSON record the caller expects
Projected(spec, row) ==
    [c \in 1..Len(RequestedColumns(spec)) |->
        LET x == row[RequestedColumns(spec)[c]]
        IN  CASE x.t = "int" -> ValueFrom_i64(x.i)
              [] x.t = "text" -> ValueFrom_String(x.s)
              [] OTHER -> Null]

ProjectedAll(spec, q) == [k \in 1..Len(q) |-> Projected(spec, q[k])]

\* C17 (as stated): when fewer rows than the cap satisfy all the filters,
\* the result holds exactly those rows, projected onto the requested columns
\* and ordered by the sort column, and truncated is false
C17_ReturnsTheMatchingRows ==
    (estate = "ok" /\ Len(MatchingRows(espec, etable)) < ecap)
        => /\ eresult.rows =
                  ProjectedAll(espec, Ordered(espec, MatchingRows(espec, etable)))
           /\ eresult.truncated = FALSE

\* C17 (amended): when fewer rows than the cap satisfy all the filters, the
\* result holds those rows ordered by the sort column, less the first offset
\* of them and cut to at most limit rows, projected onto the requested
\* columns (every column when none is requested), and truncated is false
C17_ReturnsTheWindowOfMatchingRows ==
    (estate = "ok" /\ Len(MatchingRows(espec, etable)) < ecap)
        => /\ eresult.rows =
                  ProjectedAll(espec,
                      Window(espec, Ordered(espec, MatchingRows(espec, etable))))
           /\ eresult.rows # << >> => eresult.columns = RequestedColumns(espec)
           /\ eresult.truncated = FALSE

\* the test of db/mod.rs: active = 1 AND name LIKE 'a%' sorted by id gives
\* [1, alice], [3, adam]
C17_Witness ==
    /\ estate = "ok"
    /\ etable = UsersFixture
    /\ espec.filters = <<FilterCond("active", "=", JsonI64(1)),
                         FilterCond("name", "like", JsonString(<<"a", "%">>))>>
    /\ espec.columns = <<"id", "name">>
    /\ espec.sort = SomeSort("id", TRUE)
    /\ espec.limit = SomeU64(100) /\ espec.offset = SomeU64(0)
    /\ eresult = [columns |-> <<"id", "name">>,
                  rows |-> <<<<ValueFrom_i64(1), ValueFrom_String(<<"a", "l", "i", "c", "e">>)>>,
                             <<ValueFrom_i64(3), ValueFrom_String(<<"a", "d", "a", "m">>)>>>>,
                  truncated |-> FALSE]

-----------------------------------------------------------------------------
(* Properties of schema inspection (checked under SchemaSpec)              *)

\* The tables of the result are in the order of (schema, name)
TablesSorted(s) ==
    \A j, k \in 1..Len(s.tables) :
        j < k => TableKey(<<s.tables[j].schema, s.tables[j].name>>)
                     < TableKey(<<s.tables[k].schema, s.tables[k].name>>)

\* The columns of every table of the result are those of the catalog, the
\* n-th of the result being the one with the n-th ordinal
ColumnsInOrdinalOrder(s, catalog) ==
    \A k \in 1..Len(s.tables) :
        LET cols == catalog[<<s.tables[k].schema, s.tables[k].name>>].columns
        IN  /\ Len(s.tables[k].columns) = Cardinality(cols)
            /\ \A x \in cols :
                   "name" \notin x.bad =>
                       s.tables[k].columns[Cardinality({y \in cols : y.ordinal <= x.ordinal})].name
                           = x.name

\* No schema is listed twice
SchemasDistinct(s) ==
    \A j, k \in 1..Len(s.schemas) : j # k => s.schemas[j] # s.schemas[k]

\* C18: for every dialect and every inspected database, the DatabaseSchema
\* inspect_schema returns has its tables sorted by (schema, name), the
\* columns of each table in ordinal order, and no schema listed twice
C18_SchemaOrdering ==
    sstate = "ok" =>
        /\ TablesSorted(sresult)
        /\ ColumnsInOrdinalOrder(sresult, scatalog)
        /\ SchemasDistinct(sresult)

\* The ordering of tables and columns alone
TablesAndColumnsOrdered ==
    sstate = "ok" =>
        TablesSorted(sresult) /\ ColumnsInOrdinalOrder(sresult, scatalog)

\* Some read of the catalog fails: a query, or a field of a row
SomeReadFails(listFails, catalog) ==
    \/ listFails
    \/ \E id \in DOMAIN catalog :
           \/ catalog[id].fails # {}
           \/ \E c \in catalog[id].columns : c.bad # {}
           \/ \E fk \in catalog[id].foreign_keys : fk.bad # {}

\* C19: schema inspection is all-or-nothing: when a catalog query or the
\* read of a catalog row fails, inspect_schema returns an error and no
\* DatabaseSchema
C19_AllOrNothing ==
    (sstate # "idle" /\ SomeReadFails(slistFails, scatalog)) => sstate = "error"

\* A failing query, or a failing read of a row of the table list, is an error
FailedQueryIsError ==
    (sstate # "idle" /\ Aborts(slistFails, scatalog)) => sstate = "error"

ColumnKeys == {"name", "type", "nullable", "primaryKey", "length", "precision",
               "scale", "defaultValue"}

\* C20: in the payload of get_schema, every column object of every table
\* has all of the keys name, type, nullable, primaryKey, length, precision,
\* scale and defaultValue, whatever the dialect; length, precision and
\* scale, which no engine supplies, are null
C20_ColumnKeysPresent ==
    sstate = "ok" =>
        \A k \in 1..Len(sjson.tables) :
            \A c \in 1..Len(sjson.tables[k].columns) :
                LET col == sjson.tables[k].columns[c]
                IN  /\ ColumnKeys \subseteq DOMAIN col
                    /\ col["length"] = Null
                    /\ col["precision"] = Null
                    /\ col["scale"] = Null

\* get_schema returned a table with two columns, one without a default
C20_Witness ==
    /\ sstate = "ok"
    /\ \E k \in 1..Len(sjson.tables) :
           /\ Len(sjson.tables[k].columns) = 2
           /\ sjson.tables[k].columns[1]["defaultValue"] = Null
           /\ sjson.tables[k].columns[2]["type"] = ValueFrom_String("text")

\* The column of the result read from the column x of the catalog
ColumnOf(s, k, cols, x) ==
    s.tables[k].columns[Cardinality({y \in cols : y.ordinal <= x.ordinal})]

\* C21: for every inspected table (its catalog rows all readable),
\* inspect_schema marks a column is_pk = true exactly when the column is a
\* member of the primary key of the table, whether the key has one column
\* or several
C21_PrimaryKeyDetected ==
    sstate = "ok" =>
        \A k \in 1..Len(sresult.tables) :
            LET cols == scatalog[<<sresult.tables[k].schema, sresult.tables[k].name>>].columns
            IN  (\A x \in cols : x.bad = {}) =>
                    \A x \in cols : ColumnOf(sresult, k, cols, x).is_pk = (x.pk > 0)

\* The same of the tables whose catalog rows are all readable and whose
\* primary key has at most one column
PrimaryKeyDetectedWhenSingle ==
    sstate = "ok" =>
        \A k \in 1..Len(sresult.tables) :
            LET cols == scatalog[<<sresult.tables[k].schema, sresult.tables[k].name>>].columns
            IN  (\A x \in cols : x.bad = {} /\ x.pk <= 1) =>
                    \A x \in cols : ColumnOf(sresult, k, cols, x).is_pk = (x.pk > 0)

\* The same of the tables whose catalog rows are all readable, on Postgres
\* and MySQL
PrimaryKeyDetectedOffSqlite ==
    (sstate = "ok" /\ sdialect # "Sqlite") =>
        \A k \in 1..Len(sresult.tables) :
            LET cols == scatalog[<<sresult.tables[k].schema, sresult.tables[k].name>>].columns
            IN  (\A x \in cols : x.bad = {}) =>
                    \A x \in cols : ColumnOf(sresult, k, cols, x).is_pk = (x.pk > 0)

\* A composite key on SQLite with every row readable, inspected
CompositeKeyOnSqlite ==
    /\ sstate = "ok" /\ sdialect = "Sqlite"
    /\ \E id \in DOMAIN scatalog :
           /\ \A x \in scatalog[id].columns : x.bad = {}
           /\ \E x \in scatalog[id].columns : x.pk = 2

\* The foreign keys declared on a table: (from column, referenced table,
\* referenced column)
DeclaredForeignKeys(tb) ==
    UNION {{<<c.pairs[k][1], c.to_table, c.pairs[k][2]>> : k \in 1..Len(c.pairs)} :
              c \in tb.foreign_keys}

\* The foreign_keys of one table of the result hold each declared foreign
\* key once and nothing else
ExactlyTheDeclared(fks, tb) ==
    /\ Len(fks) = Cardinality(DeclaredForeignKeys(tb))
    /\ \A x \in DeclaredForeignKeys(tb) :
           \E n \in 1..Len(fks) : <<fks[n].from, fks[n].to_table, fks[n].to>> = x

ReadableForeignKeys(tb) == \A c \in tb.foreign_keys : c.bad = {}

\* C22: for every inspected table (its catalog rows all readable),
\* foreign_keys holds exactly one ForeignKeyDef per declared (from column,
\* referenced table, referenced column), no duplicates, no mis-paired
\* columns, and none for a table without foreign keys
C22_ForeignKeysExtracted ==
    sstate = "ok" =>
        \A k \in 1..Len(sresult.tables) :
            LET tb == scatalog[<<sresult.tables[k].schema, sresult.tables[k].name>>]
            IN  ReadableForeignKeys(tb) =>
                    ExactlyTheDeclared(sresult.tables[k].foreign_keys, tb)

\* The same on SQLite and MySQL
ForeignKeysExtractedOffPostgres ==
    (sstate = "ok" /\ sdialect # "Postgres") =>
        \A k \in 1..Len(sresult.tables) :
            LET tb == scatalog[<<sresult.tables[k].schema, sresult.tables[k].name>>]
            IN  ReadableForeignKeys(tb) =>
                    ExactlyTheDeclared(sresult.tables[k].foreign_keys, tb)

\* The same on Postgres when every constraint of the database has one pair
\* of columns and no two constraints of a schema have the same name
ForeignKeysExtractedWhenSimple ==
    (/\ sstate = "ok" /\ sdialect = "Postgres"
     /\ \A t \in table_constraints(scatalog) : Len(t.key.pairs) = 1
     /\ \A t, u \in table_constraints(scatalog) :
            (t # u /\ t.table_schema = u.table_schema)
                => t.constraint_name # u.constraint_name) =>
        \A k \in 1..Len(sresult.tables) :
            LET tb == scatalog[<<sresult.tables[k].schema, sresult.tables[k].name>>]
            IN  ReadableForeignKeys(tb) =>
                    ExactlyTheDeclared(sresult.tables[k].foreign_keys, tb)

\* A foreign key over two columns on Postgres, inspected: four entries
CompositeForeignKeyOnPostgres ==
    /\ sstate = "ok" /\ sdialect = "Postgres"
    /\ DOMAIN scatalog = {<<"app", "users">>}
    /\ scatalog[<<"app", "users">>].foreign_keys = {CompositeForeignKey}
    /\ Len(sresult.tables[1].foreign_keys) = 4

-----------------------------------------------------------------------------
(* Pool options: db/pool.rs PoolOptions, create_pool; db/mod.rs            *)
(* open_connection. Durations are in milliseconds.                         *)

NoDuration == [some |-> FALSE, ms |-> 0]
SomeDuration(ms) == [some |-> TRUE, ms |-> ms]

\* impl Default for PoolOptions (pool.rs lines 18-26)
PoolOptionsDefault ==
    [max_connections |-> 5, acquire_timeout_ms |-> 10000,
     idle_timeout_ms |-> SomeDuration(300000)]

\* sqlx PoolOptions::new(): what a pool is built with unless the builder is
\* told otherwise (10 connections, 30 s to acquire, 10 min idle)
SqlxPoolOptionsNew ==
    [max_connections |-> 10, acquire_timeout_ms |-> 30000,
     idle_timeout_ms |-> SomeDuration(600000)]

\* The builder methods
max_connections(builder, n) == [builder EXCEPT !.max_connections = n]
acquire_timeout(builder, ms) == [builder EXCEPT !.acquire_timeout_ms = ms]
idle_timeout(builder, ms) == [builder EXCEPT !.idle_timeout_ms = SomeDuration(ms)]

\* create_pool (pool.rs lines 33-63): the options the pool of any driver is
\* built with; opts is a PoolOptions or NoDuration for None
create_pool_options(driver, opts) ==
    LET o == IF opts = NoDuration THEN PoolOptionsDefault ELSE opts
        builder == acquire_timeout(max_connections(SqlxPoolOptionsNew, o.max_connections),
                                   o.acquire_timeout_ms)
    IN  IF o.idle_timeout_ms.some
        THEN idle_timeout(builder, o.idle_timeout_ms.ms)
        ELSE builder

\* open_connection (mod.rs lines 74-96): the options the pool of each variant
\* was built with, the same chain in the three arms
open_connection_options(pool) ==
    CASE pool.variant = "Sqlite"   -> max_connections(SqlxPoolOptionsNew, 5)
      [] pool.variant = "Postgres" -> max_connections(SqlxPoolOptionsNew, 5)
      [] pool.variant = "MySql"    -> max_connections(SqlxPoolOptionsNew, 5)

\* C23: every pool in the registry is configured with the default pool
\* options: at most 5 connections, 10 s to acquire a connection, 300 s idle,
\* whatever the driver
C23_RegisteredPoolsHaveDefaultOptions ==
    \A id \in DOMAIN registry :
        open_connection_options(registry[id]) = PoolOptionsDefault

\* The part that holds: at most 5 connections, whatever the driver
RegisteredPoolsHaveFiveConnections ==
    \A id \in DOMAIN registry :
        open_connection_options(registry[id]).max_connections
            = PoolOptionsDefault.max_connections

\* create_pool called without options builds a pool with the default options
CreatePoolUsesTheDefaults ==
    \A d \in Driver : create_pool_options(d, NoDuration) = PoolOptionsDefault

-----------------------------------------------------------------------------
(* in / not_in lists: C24 *)

RECURSIVE Concat(_)
Concat(seqs) == IF Len(seqs) = 0 THEN << >> ELSE Head(seqs) \o Concat(Tail(seqs))

\* The bind of one JSON scalar, as the value mapping of the builder gives it
BindOf(v) == json_to_simple(v)

\* What an in / not_in filter is to contribute: one parameter per element
\* of the array, in element order; one parameter for a value that is no array
ElementBinds(cond) ==
    IF cond.value.kind = "Array"
    THEN [j \in 1..Len(cond.value.arr) |-> BindOf(cond.value.arr[j])]
    ELSE <<BindOf(cond.value)>>

\* The two constants bound in place of an empty list
EmptyListBinds(cond) ==
    <<[SeaValue("Int") EXCEPT !.i = 1],
      [SeaValue("Int") EXCEPT !.i = IF cond.op = "in" THEN 2 ELSE 1]>>

IsInFilter(cond) == cond.op \in {"in", "not_in"}
IsEmptyIn(cond) ==
    IsInFilter(cond) /\ cond.value.kind = "Array" /\ Len(cond.value.arr) = 0

\* The parameters of the filters of a SELECT: what the list holds before
\* the parameters of LIMIT and OFFSET
FilterParams(b, sp) == SubSeq(b.values, 1, Len(b.values) - LimitOffsetCount(sp))

\* The filters other than in / not_in contribute what their predicate binds
OtherBinds(d, sp, cond) == select_filter_expr(d, sp.table, cond).values

EmptyInListBuilt ==
    /\ Built /\ bspec.given.kind = "select"
    /\ Len(bspec.given.filters) = 1
    /\ IsEmptyIn(bspec.given.filters[1])
    /\ Len(FilterParams(built.given, bspec.given)) = 2

\* An in filter over a value that is no array, built: one parameter
ScalarInListBuilt ==
    /\ Built /\ bspec.given.kind = "select"
    /\ Len(bspec.given.filters) = 1
    /\ bspec.given.filters[1].op = "in"
    /\ bspec.given.filters[1].value.kind = "String"
    /\ Len(FilterParams(built.given, bspec.given)) = 1

-----------------------------------------------------------------------------
(* Integers: C25 *)

\* 0 - w - borrow, from limb k up to the most significant, modulo 2^64
RECURSIVE SubBorrow(_, _, _)
SubBorrow(w, k, borrow) ==
    IF k = 0 THEN w
    ELSE LET x == 0 - w[k] - borrow
         IN  SubBorrow([w EXCEPT ![k] = IF x < 0 THEN x + 65536 ELSE x], k - 1,
                       IF x < 0 THEN 1 ELSE 0)

\* The integer u - 2^64 for 2^63 <= u < 2^64: negative, of magnitude
\* 2^64 - u (subtracted limb by limb; the last borrow is paid by 2^64)
MinusTwoTo64(u) == BigI64(TRUE, SubBorrow(u, 4, 0))

IsInteger(v) == v.kind \in {"I64", "PosInt", "NegInt"}

\* The 64-bit signed integer a JSON integer is to be bound as
IntegerBind(v) ==
    CASE v.kind = "I64"    -> [i |-> v.i, big |-> NoBig]
      [] v.kind = "NegInt" -> [i |-> 0, big |-> BigI64(TRUE, v.w)]
      [] v.kind = "PosInt" ->
             [i |-> 0, big |-> IF AboveI64Max(v.w) THEN MinusTwoTo64(v.w)
                               ELSE BigI64(FALSE, v.w)]

\* One filter, a comparison with an integer
ComparesWithInteger(sp) ==
    /\ sp.kind \in {"select", "update", "delete"}
    /\ Len(sp.filters) = 1
    /\ sp.filters[1].op = "="
    /\ IsInteger(sp.filters[1].value)

\* The parameter of the only filter: after the SET values of an UPDATE
FilterBind(b, sp) == b.values[Len(sp.values) + 1]

\* C25: a JSON integer in the signed 64-bit range is bound as that 64-bit
\* signed integer, an unsigned integer u with 2^63 <= u < 2^64 as the 64-bit
\* signed integer u - 2^64; never as a float, a string or NULL; the same
\* for every dialect
C25_IntegersBoundAsI64 ==
    (Built /\ ComparesWithInteger(bspec.given)) =>
        LET x == FilterBind(built.given, bspec.given)
            n == IntegerBind(bspec.given.filters[1].value)
        IN  /\ x.ty = "BigInt" /\ ~x.null
            /\ x.i = n.i /\ x.big = n.big

\* C25 witness: u64::MAX compared with, bound as -1
C25_Witness ==
    /\ Built /\ ComparesWithInteger(bspec.given)
    /\ bspec.given.filters[1].value = JsonPosInt(<<65535, 65535, 65535, 65535>>)
    /\ FilterBind(built.given, bspec.given).big = BigI64(TRUE, <<0, 0, 0, 1>>)

-----------------------------------------------------------------------------
(* UPDATE and DELETE filters: C26 *)

\* The statement has the text s among its pieces
HasText(sql, t) == \E k \in 1..Len(sql) : sql[k].k = "text" /\ sql[k].s = t

\* C26: in build_update and build_delete a filter whose operator is
\* anything but "!=" gives the SQL text and the parameters of the same
\* filter with "="; only "=" and "!=" are told apart ("!=" is written <>)
C26_UpdateDeleteOnlyEqAndNe ==
    (Built /\ bspec.given.kind \in {"update", "delete"}) =>
        /\ built.given.sql = built.eqOrNe.sql
        /\ built.given.values = built.eqOrNe.values
        /\ HasText(built.given.sql, "<>")
              <=> \E k \in 1..Len(bspec.given.filters) :
                     bspec.given.filters[k].op = "!="
        /\ \A t \in {">", "<", ">=", "<=", "LIKE", "NOT LIKE", "IS NULL",
                     "IS NOT NULL", "IN", "NOT IN"} : ~HasText(built.given.sql, t)

\* C26 witness: a DELETE built from an in filter over an array, which is
\* compared by = with the array bound as one JSON text
C26_Witness ==
    /\ Built /\ bspec.given.kind = "delete"
    /\ Len(bspec.given.filters) = 1
    /\ bspec.given.filters[1].op = "in"
    /\ bspec.given.filters[1].value.kind = "Array"
    /\ bspec.eqOrNe.filters[1].op = "="
    /\ HasText(built.given.sql, "=")
    /\ Len(built.given.values) = 1 /\ built.given.values[1].is_json

-----------------------------------------------------------------------------
(* Queries in flight: C27 *)

\* C27: while a lookup call (execute_sql, execute_select_spec, get_schema)
\* is executing against the pool it found under id X, X is in the registry
\* and stands for that same pool: no close_connection(X), and no
\* open_connection, changes the entry before the call has returned
C27_EntryStaysWhileQueryRuns ==
    \A t \in Tasks :
        task[t].pc = "exec" =>
            /\ Found(registry, task[t].id)
            /\ registry[task[t].id] = task[t].pool
            /\ \A u \in Tasks : task[u].pc # "wheld"

\* C27 witness: a query is executing on X while close_connection(X) is
\* next in line for the write guard, and X is still registered
C27_Witness ==
    \E t, u \in Tasks :
        /\ task[t].pc = "exec"
        /\ task[u].pc = "wwait" /\ task[u].op = "close_connection"
        /\ task[u].id = task[t].id
        /\ lockQueue # << >> /\ Head(lockQueue) = u
        /\ Found(registry, task[t].id)
        /\ registry[task[t].id] = task[t].pool

-----------------------------------------------------------------------------
(* The column flags of the payload: C28 *)

\* C28: in the payload of get_schema, primaryKey of a column is true exactly
\* when inspect_schema reported the column with is_pk = true, and nullable
\* is the negation of its not_null
C28_PayloadFlagsFollowInspector ==
    sstate = "ok" =>
        \A k \in 1..Len(sjson.tables) :
            \A c \in 1..Len(sjson.tables[k].columns) :
                LET col == sjson.tables[k].columns[c]
                    def == sresult.tables[k].columns[c]
                IN  /\ col["primaryKey"] = ValueFrom_bool(def.is_pk)
                    /\ col["nullable"] = ValueFrom_bool(~def.not_null)

\* The part that holds: nullable is the negation of not_null
NullableFollowsInspector ==
    sstate = "ok" =>
        \A k \in 1..Len(sjson.tables) :
            \A c \in 1..Len(sjson.tables[k].columns) :
                sjson.tables[k].columns[c]["nullable"]
                    = ValueFrom_bool(~sresult.tables[k].columns[c].not_null)

\* What the payload holds instead: primaryKey false, the flag of the
\* inspector under its own name is_pk
PrimaryKeyAlwaysFalse ==
    sstate = "ok" =>
        \A k \in 1..Len(sjson.tables) :
            \A c \in 1..Len(sjson.tables[k].columns) :
                LET col == sjson.tables[k].columns[c]
                IN  /\ col["primaryKey"] = ValueFrom_bool(FALSE)
                    /\ col["is_pk"] = ValueFrom_bool(sresult.tables[k].columns[c].is_pk)

\* A primary key column in the payload of get_schema
PrimaryKeyColumnInPayload ==
    /\ sstate = "ok"
    /\ \E k \in 1..Len(sjson.tables) :
           \E c \in 1..Len(sjson.tables[k].columns) :
               /\ sresult.tables[k].columns[c].is_pk
               /\ sjson.tables[k].columns[c]["primaryKey"] = ValueFrom_bool(FALSE)

-----------------------------------------------------------------------------
(* Frame of the registry operations: C29 *)

\* The step in which the call of slot t, an op holding the write guard, returns
Completes(t, op) ==
    /\ task[t].pc = "wheld" /\ task[t].op = op
    /\ task'[t].pc = "idle"

\* Every entry of the map but those of the ids in S is as it was
SameExcept(S) ==
    /\ DOMAIN registry' \ S = DOMAIN registry \ S
    /\ \A id \in DOMAIN registry \ S : registry'[id] = registry[id]

\* A successful open_connection adds one entry and leaves the others
OpenFrame ==
    \A t \in Tasks :
        Completes(t, "open_connection") =>
            /\ task[t].id \notin DOMAIN registry
            /\ DOMAIN registry' = DOMAIN registry \cup {task[t].id}
            /\ SameExcept({task[t].id})

\* close_connection(id) removes at most the entry of id
CloseFrame ==
    \A t \in Tasks :
        Completes(t, "close_connection") =>
            /\ DOMAIN registry' = DOMAIN registry \ {task[t].id}
            /\ SameExcept({task[t].id})

\* Every other step, those of the three lookup calls among them, leaves the map
OtherFrame ==
    (\A t \in Tasks : ~Completes(t, "open_connection")
                       /\ ~Completes(t, "close_connection"))
        => registry' = registry

\* C29: a successful open_connection adds exactly one new entry and leaves
\* every entry already in the map as it was, never replacing the pool of
\* an existing id; close_connection(id) removes at most the entry of id;
\* execute_sql, execute_select_spec and get_schema never change the map
C29_RegistryFrame == [][OpenFrame /\ CloseFrame /\ OtherFrame]_vars

\* The parts that hold: close_connection and the lookup calls
CloseAndLookupFrame == [][CloseFrame /\ OtherFrame]_vars

\* open_connection whose id is not in the map adds it and nothing else
OpenFrameWhenIdIsNew ==
    [][\A t \in Tasks :
          (Completes(t, "open_connection") /\ task[t].id \notin DOMAIN registry) =>
              /\ DOMAIN registry' = DOMAIN registry \cup {task[t].id}
              /\ SameExcept({task[t].id})]_vars

\* An open_connection holds the write guard with an id that is in the map
\* under another pool
OpenAboutToReplace ==
    \E t \in Tasks :
        /\ task[t].pc = "wheld" /\ task[t].op = "open_connection"
        /\ Found(registry, task[t].id)
        /\ registry[task[t].id] # task[t].pool

-----------------------------------------------------------------------------
(* Progress on the registry lock: C30. The calls of the registry with     *)
(* their own bound on the number of calls, one clock reading, and the      *)
(* fairness of the runtime.                                                *)

MaxLiveCalls == 3

LiveOpenStart(t, d) == calls < MaxLiveCalls /\ OpenStart(t, d, 0)
LiveCloseStart(t) == calls < MaxLiveCalls /\ CloseStart(t, gen_id(0))
LiveQueryStart(t, op) == calls < MaxLiveCalls /\ QueryStart(t, op, gen_id(0))

LiveNext ==
    \/ \E t \in Tasks, d \in Driver : LiveOpenStart(t, d)
    \/ \E t \in Tasks : ConnectFail(t)
    \/ \E t \in Tasks : ConnectOk(t)
    \/ \E t \in Tasks : AcquireWrite(t)
    \/ \E t \in Tasks : OpenInsert(t)
    \/ \E t \in Tasks : LiveCloseStart(t)
    \/ \E t \in Tasks : CloseRemove(t)
    \/ \E t \in Tasks, op \in QueryOps : LiveQueryStart(t, op)
    \/ \E t \in Tasks : LookupMiss(t)
    \/ \E t \in Tasks : LookupHit(t)
    \/ \E t \in Tasks, r \in {"Ok", "ExecError"} : ExecDone(t, r)

\* The tokio runtime polls every task that has been woken, and the RwLock
\* wakes its waiters first in first out: a step of a call that stays
\* possible is taken. That a query in flight returns is assumed (the
\* premise of C30). Nothing obliges a caller to start a call or a connect to end.
LiveFairness ==
    \A t \in Tasks :
        /\ WF_vars(AcquireWrite(t))
        /\ WF_vars(OpenInsert(t))
        /\ WF_vars(CloseRemove(t))
        /\ WF_vars(LookupHit(t))
        /\ WF_vars(LookupMiss(t))
        /\ WF_vars(\E r \in {"Ok", "ExecError"} : ExecDone(t, r))

LiveSpec == Init /\ [][LiveNext]_vars /\ LiveFairness

\* C30: every close_connection, and every open_connection whose connect
\* succeeded, that waits for the write guard is granted it and completes,
\* and every lookup that waits for a read guard proceeds: no call waits
\* for ever on the lock of the registry
C30_NoCallWaitsForEver ==
    \A t \in Tasks :
        /\ (task[t].pc = "wwait") ~> (task[t].pc = "wheld")
        /\ (task[t].pc = "wheld") ~> (task[t].pc = "idle")
        /\ (task[t].pc = "rwait") ~> (task[t].pc \in {"exec", "idle"})

\* C30 witness: a close_connection waits for the write guard while a query
\* is in flight
C30_Witness ==
    \E t, u \in Tasks :
        /\ task[t].pc = "exec"
        /\ task[u].pc = "wwait" /\ task[u].op = "close_connection"
        /\ lockQueue = <<u>>
        /\ lockReaders = {t}

\* A lookup waits behind a close_connection that waits for the write guard
LookupBehindWriter ==
    \E u, v \in Tasks :
        /\ task[u].pc = "wwait" /\ task[v].pc = "rwait"
        /\ lockQueue = <<u, v>>

====
